---- MODULE Spec2Model ----
(***************************************************************************)
(* A model of the data-collection core of AndroidMetrics:                  *)
(*   - EnhancedCache (two-tier cache)          src/core/adb_collector.py   *)
(*   - BatchADBExecutor / ADBCollector          src/core/adb_collector.py  *)
(*   - OptimizedDataCollectionWorker            gui/monitor_view.py        *)
(*   - OptimizedDataStorageService              database/data_storage.py   *)
(*   - DatabaseConnectionManager                src/database/connection.py *)
(*                                                                         *)
(* Each subsystem has its own specification (SpecCache, SpecBatch, ...)    *)
(* over its own variables; the variables of the other subsystems are left  *)
(* unchanged by it.                                                        *)
(*                                                                         *)
(* Time is a discrete clock.  The cache's TTLs and capacities are scaled   *)
(* down from the source's values (30 s / 60 s / 120 s, 100 / 500 entries)  *)
(* keeping their ratios and comparison operators.                          *)
(***************************************************************************)
EXTENDS Integers, Sequences, FiniteSets, TLC

None == "None"

Min(a, b) == IF a <= b THEN a ELSE b
Max(a, b) == IF a >= b THEN a ELSE b

(***************************************************************************)
(*                               State                                     *)
(***************************************************************************)
\* EnhancedCache
VARIABLES
    now,            \* time.time(), in clock ticks
    l1_cache,       \* EnhancedCache.l1_cache: entries in dict (insertion) order
    l2_cache,       \* EnhancedCache.l2_cache
    cache_stats,    \* EnhancedCache.cache_stats
    lastGet,        \* history: what the most recent step did, if it was a get
    prevGet,        \* history: the get right before lastGet, nothing in between
    putLog,         \* history: the run of puts of distinct keys since the empty cache
    expiryRemovedBy \* history: which operation the last step removed expired entries by

cacheVars == <<now, l1_cache, l2_cache, cache_stats, lastGet, prevGet, putLog,
               expiryRemovedBy>>

\* ADBCollector._run_adb_command
VARIABLES
    retry_count,    \* ADBCollector.retry_count
    cmd_cache,      \* ADBCollector._cache: cache key -> entry
    rc_now,         \* time.time() of the command runner
    rc_pc,          \* "idle", "attempt", "returned" or "raised"
    rc_command,     \* the command of the call in progress
    rc_use_cache,   \* its use_cache argument
    rc_attempt,     \* the loop variable attempt
    rc_outcomes,    \* history: the outcome of each subprocess.run of this call
    rc_result       \* the value returned

runVars == <<retry_count, cmd_cache, rc_now, rc_pc, rc_command, rc_use_cache,
             rc_attempt, rc_outcomes, rc_result>>

\* BatchADBExecutor
VARIABLES
    eb_pc,          \* execute_batch: "idle", "collect", "returned" or "raised"
    eb_n,           \* the number of commands of the batch; their keys are 1..eb_n
    task_state,     \* the pool's tasks: "queued", "running" or "done"
    task_kind,      \* history: what the task's subprocess.run did
    task_future,    \* the future of a task that is done
    eb_idx,         \* the position of the loop over futures.items()
    eb_results,     \* the dict results
    eb_timedout,    \* history: the keys whose future.result() timed out
    eb_waited       \* the time the current future.result() has been waiting

batchVars == <<eb_pc, eb_n, task_state, task_kind, task_future, eb_idx, eb_results,
               eb_timedout, eb_waited>>

\* The sampling intervals: OptimizedDataCollectionWorker and
\* ADBCollector._collection_intervals.  Times are in milliseconds.
VARIABLES
    adaptive_interval,      \* OptimizedDataCollectionWorker.adaptive_interval
    collection_times,       \* OptimizedDataCollectionWorker.collection_times
    since_optimization,     \* time.time() - last_optimization at the top of the loop
    error_count,            \* OptimizedDataCollectionWorker.error_count
    errors_total,           \* history: the collections that raised so far
    collection_intervals,   \* ADBCollector._collection_intervals
    load,                   \* the device: a collection takes load % of the interval
    load_changes,           \* history: how often the load has changed
    lastAdjust              \* history: what the last _adjust_interval did

intervalVars == <<adaptive_interval, collection_times, since_optimization, error_count,
                  errors_total, collection_intervals, load, load_changes, lastAdjust>>

\* The buffered write path: OptimizedDataStorageService (one record type,
\* system_performance) and DatabaseConnectionManager's batch worker.  Records
\* are counted, times are in seconds.
VARIABLES
    batch_buffer,       \* len(batch_buffers[table_name])
    since_flush,        \* time.time() - last_flush_times[table_name], up to the threshold
    batch_processing,   \* DatabaseConnectionManager.batch_processing
    batch_queue,        \* DatabaseConnectionManager.batch_queue.qsize()
    bw_alive,           \* the batch worker thread is in its loop
    bw_batch_data,      \* _batch_worker: len(batch_data)
    bw_since_flush,     \* _batch_worker: current_time - last_flush_time, up to the threshold
    bulk_calls,         \* history: the bulk inserts made, each with its size and outcome
    ds_clock,           \* history: the time since the start
    ds_enqueued,        \* history: the records given to _add_to_batch
    ds_flushes,         \* history: the sizes of the flushes of the buffer
    ds_dropped,         \* history: the records add_to_batch did not queue
    only_size_flushes   \* history: every flush so far was triggered by the size threshold

writerVars == <<batch_buffer, since_flush, batch_processing, batch_queue, bw_alive,
                bw_batch_data, bw_since_flush, bulk_calls, ds_clock, ds_enqueued,
                ds_flushes, ds_dropped, only_size_flushes>>

\* get_multiple_app_performance
VARIABLES
    ap_pc,              \* position in get_multiple_app_performance
    apps_to_update,     \* the packages that are due in this call
    all_top_info,       \* the phase-1 output of top
    actual_process_names,   \* the name used for each package of apps_to_update
    batch_commands_phase2,  \* the phase-2 commands, in order
    ap_issued,          \* history: the batches handed to the dispatcher in this call
    ap_collected        \* the packages whose _last_collection_time is within the interval

appVars == <<ap_pc, apps_to_update, all_top_info, actual_process_names,
             batch_commands_phase2, ap_issued, ap_collected>>

\* _estimate_power_consumption
VARIABLES
    pw_pc,              \* "ready" before the call, "done" after it
    cpu_usage,          \* _get_app_cpu_usage: [present, value] in tenths of a percent
    memory_info,        \* _get_app_memory: [present, value] memory_pss in MB
    foreground,         \* _is_app_in_foreground: "yes", "no" or "raises"
    network_result,     \* the netstats output holds rx, tx or bytes
    pw_raises,          \* reading the metrics raises
    components_found,   \* the number of components added
    pw_result           \* the returned value: [returned, value] in 0.001 mAh

powerVars == <<pw_pc, cpu_usage, memory_info, foreground, network_result, pw_raises,
               components_found, pw_result>>

\* Starting and stopping the polling thread (OptimizedMonitorViewWidget and
\* OptimizedDataCollectionWorker).
VARIABLES
    running,            \* OptimizedDataCollectionWorker.running
    wk_pc,              \* the polling thread: "none", "started", "loop" or "finished"
    gui_pc              \* the GUI thread: "idle", "monitoring", "waiting", "stopped"
                        \* or "restarting"

cancelVars == <<running, wk_pc, gui_pc>>

\* The device identifier and the commands issued with it.
VARIABLES
    device_id,              \* ADBCollector.device_id
    executor_device_id,     \* ADBCollector.batch_executor.device_id
    issued                  \* history: the commands issued, each with the collector's
                            \* device_id at that moment, the path taken and its argv

deviceVars == <<device_id, executor_device_id, issued>>

\* _parse_network_data
VARIABLES
    last_system_network,    \* ADBCollector._last_system_network: [present, time, rx, tx]
    nt_now,                 \* time.time(), in seconds
    nt_text,                \* the text of the last parse
    nt_result,              \* the record of the last parse
    nt_prev_text,           \* the text of the parse before it
    nt_prev_result,         \* the record of the parse before it
    nt_parses               \* history: the number of parses made, up to 2

netVars == <<last_system_network, nt_now, nt_text, nt_result, nt_prev_text,
             nt_prev_result, nt_parses>>

\* The collect calls of ADBCollector and the state they are Fresh by.
VARIABLES
    fr_now,                 \* time.time()
    last_collection_time,   \* ADBCollector._last_collection_time
    fr_l1,                  \* ADBCollector.enhanced_cache.l1_cache
    fr_l2,                  \* ADBCollector.enhanced_cache.l2_cache
    fr_last                 \* history: what the last collect call did

freshVars == <<fr_now, last_collection_time, fr_l1, fr_l2, fr_last>>

\* Two threads on one EnhancedCache, one statement at a time (the polling
\* thread and the GUI thread call the same collector; the cache has no lock).
VARIABLES
    cc_l1,          \* l1_cache: key -> the entry's time
    cc_l2,          \* l2_cache: key -> the entry's time
    cc_clock,       \* time.time(), one tick per put
    cc_th,          \* per thread: the statement it is at and its locals
    cc_raised,      \* history: the threads one of whose operations raised
    cc_ops,         \* history: the number of operations started
    cc_gets         \* history: the number of gets among them

ccVars == <<cc_l1, cc_l2, cc_clock, cc_th, cc_raised, cc_ops, cc_gets>>

\* ADBCollector._run_adb_commands_parallel
VARIABLES
    pr_timeout,      \* ADBCollector.timeout, in seconds
    pr_retry_count,  \* ADBCollector.retry_count
    pr_pc,           \* "idle", "join", "drain" or "returned"
    pr_n,            \* the number of commands; their keys are 1..pr_n
    pr_threads,      \* per command: when its thread ends, and how
    pr_now,          \* seconds since the threads were started
    pr_idx,          \* the thread being joined
    pr_alive,        \* history: the threads found alive after their join
    pr_results       \* results: the keys the call returns

prVars == <<pr_timeout, pr_retry_count, pr_pc, pr_n, pr_threads, pr_now, pr_idx,
            pr_alive, pr_results>>

\* PerformanceMonitor and OptimizedConfigManager: one thread calling the
\* methods of an object that guards its state with self.lock
VARIABLES
    lk_lock,        \* self.lock (threading.Lock): TRUE when held
    lk_stack,       \* the call stack: per frame the method and what is left of it
    lk_calls,       \* history: the number of calls made from outside
    pm_metrics,     \* PerformanceMonitor.metrics: the names recorded
    cm_files,       \* the config files that exist
    cm_modified     \* the configs changed in memory since their file was written

lkVars == <<lk_lock, lk_stack, lk_calls, pm_metrics, cm_files, cm_modified>>

vars == <<cacheVars, runVars, batchVars, intervalVars, writerVars, appVars, powerVars,
          cancelVars, deviceVars, netVars, freshVars, ccVars, prVars, lkVars>>

\* What the steps of one subsystem leave alone.
cacheFrame == <<runVars, batchVars, intervalVars, writerVars, appVars, powerVars,
                cancelVars, deviceVars, netVars, freshVars, ccVars, prVars, lkVars>>
runFrame == <<cacheVars, batchVars, intervalVars, writerVars, appVars, powerVars,
              cancelVars, deviceVars, netVars, freshVars, ccVars, prVars, lkVars>>
batchFrame == <<cacheVars, runVars, intervalVars, writerVars, appVars, powerVars,
                cancelVars, deviceVars, netVars, freshVars, ccVars, prVars, lkVars>>
intervalFrame == <<now, l1_cache, l2_cache, lastGet, prevGet, putLog, expiryRemovedBy,
                   runVars, batchVars, writerVars, appVars, powerVars, cancelVars,
                   deviceVars, netVars, freshVars, ccVars, prVars, lkVars>>
writerFrame == <<cacheVars, runVars, batchVars, intervalVars, appVars, powerVars,
                 cancelVars, deviceVars, netVars, freshVars, ccVars, prVars, lkVars>>
appFrame == <<cacheVars, runVars, batchVars, intervalVars, writerVars, powerVars,
              cancelVars, deviceVars, netVars, freshVars, ccVars, prVars, lkVars>>
powerFrame == <<cacheVars, runVars, batchVars, intervalVars, writerVars, appVars,
                cancelVars, deviceVars, netVars, freshVars, ccVars, prVars, lkVars>>
cancelFrame == <<cacheVars, runVars, batchVars, intervalVars, writerVars, appVars,
                 powerVars, deviceVars, netVars, freshVars, ccVars, prVars, lkVars>>
deviceFrame == <<cacheVars, runVars, batchVars, intervalVars, writerVars, appVars,
                 powerVars, cancelVars, netVars, freshVars, ccVars, prVars, lkVars>>
netFrame == <<cacheVars, runVars, batchVars, intervalVars, writerVars, appVars,
              powerVars, cancelVars, deviceVars, freshVars, ccVars, prVars, lkVars>>
freshFrame == <<cacheVars, runVars, batchVars, intervalVars, writerVars, appVars,
                powerVars, cancelVars, deviceVars, netVars, ccVars, prVars, lkVars>>
ccFrame == <<cacheVars, runVars, batchVars, intervalVars, writerVars, appVars,
             powerVars, cancelVars, deviceVars, netVars, freshVars, prVars, lkVars>>
prFrame == <<cacheVars, runVars, batchVars, intervalVars, writerVars, appVars,
             powerVars, cancelVars, deviceVars, netVars, freshVars, ccVars, lkVars>>
lkFrame == <<cacheVars, runVars, batchVars, intervalVars, writerVars, appVars,
             powerVars, cancelVars, deviceVars, netVars, freshVars, ccVars, prVars>>

(***************************************************************************)
(*                           EnhancedCache                                 *)
(***************************************************************************)
\* Bounds of the cache model.
MaxTime == 5
NumKeys == 3
MaxGets == 2

\* Program constants (scaled: 100, 500, 30 s, 60 s, 120 s in the source).
max_l1_size == 2
max_l2_size == 2
ttl == 2
L1SweepAge == 4
L2SweepAge == 8

CacheKeys == 1..NumKeys

\* As many distinct keys as the two tiers hold together: the keys of a run of
\* puts that fills both tiers.
EvictionKeys == 1..(max_l1_size + max_l2_size)
Data == {"v1"}
Fetched == "fetched"

\* The keys of a dict.
Keys(c) == {c[i].key : i \in DOMAIN c}

\* c[key]
Lookup(c, key) == c[CHOOSE i \in DOMAIN c : c[i].key = key]

\* del c[key]
Delete(c, key) == SelectSeq(c, LAMBDA e : e.key # key)

\* c[key] = e : an existing key keeps its position, a new key goes last.
Assign(c, key, e) ==
    IF key \in Keys(c)
    THEN [i \in DOMAIN c |-> IF c[i].key = key THEN e ELSE c[i]]
    ELSE Append(c, e)

\* min(c.keys(), key=lambda k: c[k]['time']): the first of the oldest entries.
OldestKey(c) ==
    LET i == CHOOSE i \in DOMAIN c :
                /\ \A j \in DOMAIN c : c[i].time <= c[j].time
                /\ \A j \in DOMAIN c : c[j].time = c[i].time => i <= j
    IN  c[i].key

\* EnhancedCache.put as a function of the two tiers.
PutResult(l1, l2, key, data, timestamp) ==
    LET demote  == Len(l1) >= max_l1_size
        oldest1 == IF demote THEN OldestKey(l1) ELSE None
        l2a     == IF demote THEN Assign(l2, oldest1, Lookup(l1, oldest1)) ELSE l2
        l1a     == IF demote THEN Delete(l1, oldest1) ELSE l1
        l1b     == Assign(l1a, key, [key |-> key, data |-> data, time |-> timestamp])
        drop    == Len(l2a) >= max_l2_size
        oldest2 == IF drop THEN OldestKey(l2a) ELSE None
        l2b     == IF drop THEN Delete(l2a, oldest2) ELSE l2a
    IN  [l1 |-> l1b, l2 |-> l2b,
         demoted |-> IF demote THEN <<oldest1>> ELSE <<>>,
         dropped |-> IF drop THEN <<oldest2>> ELSE <<>>,
         l2BeforeDrop |-> l2a]

\* EnhancedCache.get as a function of the two tiers; fetch is the value
\* fetch_func() returns, or None when get is called without a fetch_func.
GetResult(l1, l2, key, current_time, fetch) ==
    LET in1     == key \in Keys(l1)
        fresh1  == in1 /\ current_time - Lookup(l1, key).time < ttl
        l1a     == IF in1 /\ ~fresh1 THEN Delete(l1, key) ELSE l1
        in2     == key \in Keys(l2)
        fresh2  == in2 /\ current_time - Lookup(l2, key).time < ttl * 2
        l2a     == IF in2 THEN Delete(l2, key) ELSE l2
        fetched == PutResult(l1a, l2a, key, fetch, current_time)
    IN  IF fresh1
        THEN [l1 |-> l1, l2 |-> l2, kind |-> "l1_hit",
              data |-> Lookup(l1, key).data, age |-> current_time - Lookup(l1, key).time,
              expired1 |-> FALSE, expired2 |-> FALSE]
        ELSE IF fresh2
        THEN [l1 |-> Assign(l1a, key, Lookup(l2, key)), l2 |-> l2a, kind |-> "l2_hit",
              data |-> Lookup(l2, key).data, age |-> current_time - Lookup(l2, key).time,
              expired1 |-> in1, expired2 |-> FALSE]
        ELSE IF fetch # None
        THEN [l1 |-> fetched.l1, l2 |-> fetched.l2, kind |-> "miss",
              data |-> fetch, age |-> 0,
              expired1 |-> in1, expired2 |-> in2]
        ELSE [l1 |-> l1a, l2 |-> l2a, kind |-> "miss",
              data |-> None, age |-> 0,
              expired1 |-> in1, expired2 |-> in2]

NoGet == [op |-> "none"]
EmptyLog == [pure |-> FALSE, keys |-> {}, demoted |-> 0, dropped |-> {}, oldest |-> TRUE]
NoStats == [l1_hit |-> 0, l2_hit |-> 0, miss |-> 0]

\* The newest entry stored for key, over both tiers.
Newest(l1, l2, key) ==
    IF key \in Keys(l1) /\ key \in Keys(l2)
    THEN (IF Lookup(l1, key).time >= Lookup(l2, key).time
          THEN Lookup(l1, key) ELSE Lookup(l2, key))
    ELSE IF key \in Keys(l1) THEN Lookup(l1, key) ELSE Lookup(l2, key)

\* An entry of c is as old as any (oldest by stored_at).
IsOldest(c, key) == \A j \in DOMAIN c : Lookup(c, key).time <= c[j].time

EnhancedCache_init ==
    /\ now = 0
    /\ l1_cache = <<>>
    /\ l2_cache = <<>>
    /\ cache_stats = NoStats
    /\ lastGet = NoGet
    /\ prevGet = NoGet
    /\ putLog = [EmptyLog EXCEPT !.pure = TRUE]
    /\ expiryRemovedBy = "none"

EnhancedCache_get(key, fetch) ==
    /\ cache_stats.l1_hit + cache_stats.l2_hit + cache_stats.miss < MaxGets
    /\ LET r       == GetResult(l1_cache, l2_cache, key, now, fetch)
           present == key \in Keys(l1_cache) \cup Keys(l2_cache)
       IN  /\ l1_cache' = r.l1
           /\ l2_cache' = r.l2
           /\ cache_stats' = [cache_stats EXCEPT ![r.kind] = @ + 1]
           /\ prevGet' = lastGet
           /\ lastGet' = [op |-> "get", key |-> key, kind |-> r.kind, result |-> r.data,
                          age |-> r.age, present |-> present,
                          storedData |-> IF present
                                         THEN Newest(l1_cache, l2_cache, key).data
                                         ELSE None,
                          storedAge |-> IF present
                                        THEN now - Newest(l1_cache, l2_cache, key).time
                                        ELSE 0,
                          foundExpired |-> r.expired1 \/ r.expired2,
                          fetching |-> fetch # None]
           /\ expiryRemovedBy' = IF r.expired1 \/ r.expired2 THEN "get" ELSE "none"
    /\ putLog' = EmptyLog
    /\ UNCHANGED now
    /\ UNCHANGED cacheFrame

EnhancedCache_put(key, data) ==
    /\ LET r == PutResult(l1_cache, l2_cache, key, data, now)
       IN  /\ l1_cache' = r.l1
           /\ l2_cache' = r.l2
           /\ putLog' =
                IF putLog.pure /\ key \notin putLog.keys
                THEN [pure |-> TRUE,
                      keys |-> putLog.keys \cup {key},
                      demoted |-> putLog.demoted + Len(r.demoted),
                      dropped |-> putLog.dropped \cup {r.dropped[i] : i \in DOMAIN r.dropped},
                      oldest |-> /\ putLog.oldest
                                 /\ \A i \in DOMAIN r.demoted : IsOldest(l1_cache, r.demoted[i])
                                 /\ \A i \in DOMAIN r.dropped :
                                        IsOldest(r.l2BeforeDrop, r.dropped[i])]
                ELSE EmptyLog
    /\ lastGet' = NoGet
    /\ prevGet' = NoGet
    /\ expiryRemovedBy' = "none"
    /\ UNCHANGED <<now, cache_stats>>
    /\ UNCHANGED cacheFrame

\* ADBCollector.cleanup_expired_cache
cleanup_expired_cache ==
    /\ l1_cache' = SelectSeq(l1_cache, LAMBDA e : ~(now - e.time > L1SweepAge))
    /\ l2_cache' = SelectSeq(l2_cache, LAMBDA e : ~(now - e.time > L2SweepAge))
    /\ expiryRemovedBy' = IF l1_cache' # l1_cache \/ l2_cache' # l2_cache
                          THEN "sweep" ELSE "none"
    /\ lastGet' = NoGet
    /\ prevGet' = NoGet
    /\ putLog' = EmptyLog
    /\ UNCHANGED <<now, cache_stats>>
    /\ UNCHANGED cacheFrame

\* The clock advances.
Tick ==
    /\ now < MaxTime
    /\ now' = now + 1
    /\ lastGet' = NoGet
    /\ prevGet' = NoGet
    /\ expiryRemovedBy' = "none"
    /\ UNCHANGED <<l1_cache, l2_cache, cache_stats, putLog>>
    /\ UNCHANGED cacheFrame

(***************************************************************************)
(*                  ADBCollector._run_adb_command                          *)
(***************************************************************************)
\* Bounds of the command-runner model.
MaxRetryCount == 3
MaxRunTime == 3

\* Program constant (scaled: 30.0 s in the source).
cache_timeout == 2

Commands == {"devices", "shell top"}
\* What one subprocess.run does: returns output (possibly empty), or raises
\* TimeoutExpired, CalledProcessError (non-zero exit) or another exception.
Outcomes == {"ok", "ok_empty", "timeout", "nonzero", "error"}
Succeeded(outcome) == outcome \in {"ok", "ok_empty"}
\* result.stdout.strip()
Stdout == [c \in Commands |-> IF c = "devices" THEN "device list" ELSE "top snapshot"]
Output(command, outcome) == IF outcome = "ok" THEN Stdout[command] ELSE ""

\* ADBCollector._get_cached_result: the cached result, or None.
CachedResult(cache, cache_key, t) ==
    IF cache_key \in DOMAIN cache /\ t - cache[cache_key].timestamp < cache_timeout
    THEN cache[cache_key].result
    ELSE None

\* ... and the cache it leaves: an expired entry is removed.
CacheAfterLookup(cache, cache_key, t) ==
    IF cache_key \in DOMAIN cache /\ ~(t - cache[cache_key].timestamp < cache_timeout)
    THEN [c \in DOMAIN cache \ {cache_key} |-> cache[c]]
    ELSE cache

\* ADBCollector._cache_result
CacheResult(cache, cache_key, result, t) ==
    [c \in DOMAIN cache \cup {cache_key} |->
        IF c = cache_key THEN [result |-> result, timestamp |-> t] ELSE cache[c]]

\* A loop that makes one attempt too many.
InRangeInclusive(attempt) == attempt <= retry_count

\* for attempt in range(self.retry_count): is there an iteration for attempt?
InRange(attempt) == attempt < retry_count

\* The three except clauses of the loop: every failure of subprocess.run is
\* caught, and the loop goes on.
Caught(outcome) == outcome \in {"timeout", "nonzero", "error"}

InitRun ==
    /\ retry_count \in 0..MaxRetryCount
    /\ cmd_cache = [c \in {} |-> None]
    /\ rc_now = 0
    /\ rc_pc = "idle"
    /\ rc_command = None
    /\ rc_use_cache = FALSE
    /\ rc_attempt = 0
    /\ rc_outcomes = <<>>
    /\ rc_result = None

\* The call, up to the first iteration of the retry loop.
run_adb_command_call(command, use_cache) ==
    /\ rc_pc = "idle"
    /\ rc_command' = command
    /\ rc_use_cache' = use_cache
    /\ rc_attempt' = 0
    /\ rc_outcomes' = <<>>
    /\ LET cached == IF use_cache THEN CachedResult(cmd_cache, command, rc_now) ELSE None
       IN  /\ cmd_cache' = IF use_cache
                           THEN CacheAfterLookup(cmd_cache, command, rc_now)
                           ELSE cmd_cache
           /\ IF cached # None
              THEN rc_pc' = "returned" /\ rc_result' = cached
              ELSE IF InRange(0)
              THEN rc_pc' = "attempt" /\ rc_result' = None
              ELSE rc_pc' = "returned" /\ rc_result' = None
    /\ UNCHANGED <<retry_count, rc_now>>
    /\ UNCHANGED runFrame

\* One iteration of the retry loop: subprocess.run and what follows it.
run_adb_command_attempt(outcome) ==
    /\ rc_pc = "attempt"
    /\ rc_outcomes' = Append(rc_outcomes, outcome)
    /\ IF Succeeded(outcome)
       THEN /\ rc_result' = Output(rc_command, outcome)
            /\ rc_pc' = "returned"
            /\ cmd_cache' = IF rc_use_cache /\ Output(rc_command, outcome) # ""
                            THEN CacheResult(cmd_cache, rc_command,
                                             Output(rc_command, outcome), rc_now)
                            ELSE cmd_cache
            /\ UNCHANGED rc_attempt
       ELSE IF ~Caught(outcome)
       THEN /\ rc_pc' = "raised"
            /\ UNCHANGED <<rc_result, cmd_cache, rc_attempt>>
       ELSE /\ rc_attempt' = rc_attempt + 1
            /\ rc_pc' = IF InRange(rc_attempt + 1) THEN "attempt" ELSE "returned"
            /\ rc_result' = None
            /\ UNCHANGED cmd_cache
    /\ UNCHANGED <<retry_count, rc_now, rc_command, rc_use_cache>>
    /\ UNCHANGED runFrame

\* The caller takes the result; the runner is ready for the next call.
run_adb_command_done ==
    /\ rc_pc = "returned"
    /\ rc_pc' = "idle"
    /\ UNCHANGED <<retry_count, cmd_cache, rc_now, rc_command, rc_use_cache,
                   rc_attempt, rc_outcomes, rc_result>>
    /\ UNCHANGED runFrame

RunTick ==
    /\ rc_now < MaxRunTime
    /\ rc_now' = rc_now + 1
    /\ UNCHANGED <<retry_count, cmd_cache, rc_pc, rc_command, rc_use_cache,
                   rc_attempt, rc_outcomes, rc_result>>
    /\ UNCHANGED runFrame

NextRun ==
    \/ \E command \in Commands, use_cache \in BOOLEAN :
          run_adb_command_call(command, use_cache)
    \/ \E outcome \in Outcomes : run_adb_command_attempt(outcome)
    \/ run_adb_command_done
    \/ RunTick

(***************************************************************************)
(*                          BatchADBExecutor                               *)
(***************************************************************************)
\* Bound of the dispatcher model.
MaxBatch == 5

\* Bound of the batches whose waits are timed; it exceeds max_workers, so
\* that a task can wait for a free worker.  The wait for a task of a larger
\* batch can time out at any moment.
MaxWaitBatch == 3
Timed(n) == n <= MaxWaitBatch

\* Program constant (scaled: ThreadPoolExecutor(max_workers=8) in the source).
max_workers == 2

\* Program constant (scaled: future.result(timeout=timeout + 2) with
\* timeout=10 or 15 seconds in the source): the longest wait for one future.
WaitBound == 2

\* A wait with no timeout: future.result().
WaitNeverExpires(waited) == FALSE

\* future.result(timeout=timeout + 2): the wait ends when the time is up.
WaitExpired(waited) == waited >= WaitBound

\* What a task's command does: subprocess.run returns, or raises
\* TimeoutExpired or CalledProcessError (any exception is handled alike);
\* "badcmd" is a command that is no string, on which command.split() raises
\* before the try.
TaskKinds == {"ok", "timeout", "nonzero", "badcmd"}

\* The stdout of the command with key cmd_id.
BatchStdout(cmd_id) == "output"

\* BatchADBExecutor._execute_single_command: the future a task leaves.
ExecuteSingleCommand(cmd_id, kind) ==
    IF kind = "badcmd" THEN [raised |-> TRUE, value |-> None]
    ELSE IF kind = "ok" THEN [raised |-> FALSE, value |-> BatchStdout(cmd_id)]
    ELSE [raised |-> FALSE, value |-> None]

\* A handler that leaves a failed task's key out of the results.
StoreResultSkipFailed(results, cmd_id, future, timed_out) ==
    IF timed_out \/ future.raised
    THEN results
    ELSE [k \in DOMAIN results \cup {cmd_id} |->
             IF k = cmd_id THEN future.value ELSE results[k]]

\* The body of the loop over futures.items(): try: results[cmd_id] =
\* future.result(timeout=timeout + 2); except Exception: results[cmd_id] = None
StoreResult(results, cmd_id, future, timed_out) ==
    [k \in DOMAIN results \cup {cmd_id} |->
        IF k = cmd_id
        THEN (IF timed_out \/ future.raised THEN None ELSE future.value)
        ELSE results[k]]

NoFuture == [raised |-> FALSE, value |-> None]
Running == {i \in 1..eb_n : task_state[i] = "running"}
Queued == {i \in 1..eb_n : task_state[i] = "queued"}

InitBatch ==
    /\ eb_pc = "idle"
    /\ eb_n = 0
    /\ task_state = <<>>
    /\ task_kind = <<>>
    /\ task_future = <<>>
    /\ eb_idx = 1
    /\ eb_results = <<>>
    /\ eb_timedout = {}
    /\ eb_waited = 0

\* execute_batch, the submit loop: one future per command.
execute_batch_submit(n) ==
    /\ eb_pc = "idle"
    /\ eb_pc' = "collect"
    /\ eb_n' = n
    /\ task_state' = [i \in 1..n |-> "queued"]
    /\ task_kind' = [i \in 1..n |-> "pending"]
    /\ task_future' = [i \in 1..n |-> NoFuture]
    /\ eb_idx' = 1
    /\ eb_results' = <<>>
    /\ eb_timedout' = {}
    /\ eb_waited' = 0
    /\ UNCHANGED batchFrame

\* A free worker of the pool takes the first queued task.
worker_start ==
    /\ Queued # {}
    /\ Cardinality(Running) < max_workers
    /\ LET i == CHOOSE i \in Queued : \A j \in Queued : i <= j
       IN  task_state' = [task_state EXCEPT ![i] = "running"]
    /\ UNCHANGED <<eb_pc, eb_n, task_kind, task_future, eb_idx, eb_results, eb_timedout,
                   eb_waited>>
    /\ UNCHANGED batchFrame

\* A running task ends: _execute_single_command returns or raises.
worker_finish(i, kind) ==
    /\ i \in Running
    /\ task_state' = [task_state EXCEPT ![i] = "done"]
    /\ task_kind' = [task_kind EXCEPT ![i] = kind]
    /\ task_future' = [task_future EXCEPT ![i] = ExecuteSingleCommand(i, kind)]
    /\ UNCHANGED <<eb_pc, eb_n, eb_idx, eb_results, eb_timedout, eb_waited>>
    /\ UNCHANGED batchFrame

\* future.result(timeout=timeout + 2) of a task that is done.
execute_batch_collect ==
    /\ eb_pc = "collect"
    /\ eb_idx <= eb_n
    /\ task_state[eb_idx] = "done"
    /\ eb_results' = StoreResult(eb_results, eb_idx, task_future[eb_idx], FALSE)
    /\ eb_idx' = eb_idx + 1
    /\ eb_waited' = 0
    /\ UNCHANGED <<eb_pc, eb_n, task_state, task_kind, task_future, eb_timedout>>
    /\ UNCHANGED batchFrame

\* Time passes while future.result(timeout=timeout + 2) waits for a task
\* that is not done.
execute_batch_wait ==
    /\ eb_pc = "collect"
    /\ eb_idx <= eb_n
    /\ task_state[eb_idx] # "done"
    /\ Timed(eb_n)
    /\ ~WaitExpired(eb_waited)
    /\ eb_waited' = eb_waited + 1
    /\ UNCHANGED <<eb_pc, eb_n, task_state, task_kind, task_future, eb_idx, eb_results,
                   eb_timedout>>
    /\ UNCHANGED batchFrame

\* future.result(timeout=timeout + 2) raises TimeoutError: the task is still
\* queued or running when the wait ends.
execute_batch_wait_timeout ==
    /\ eb_pc = "collect"
    /\ eb_idx <= eb_n
    /\ task_state[eb_idx] # "done"
    /\ Timed(eb_n) => WaitExpired(eb_waited)
    /\ eb_results' = StoreResult(eb_results, eb_idx, task_future[eb_idx], TRUE)
    /\ eb_timedout' = eb_timedout \cup {eb_idx}
    /\ eb_idx' = eb_idx + 1
    /\ eb_waited' = 0
    /\ UNCHANGED <<eb_pc, eb_n, task_state, task_kind, task_future>>
    /\ UNCHANGED batchFrame

\* return results
execute_batch_return ==
    /\ eb_pc = "collect"
    /\ eb_idx > eb_n
    /\ eb_pc' = "returned"
    /\ UNCHANGED <<eb_n, task_state, task_kind, task_future, eb_idx, eb_results,
                   eb_timedout, eb_waited>>
    /\ UNCHANGED batchFrame

NextBatch ==
    \/ \E n \in 1..MaxBatch : execute_batch_submit(n)
    \/ worker_start
    \/ \E i \in 1..MaxBatch, kind \in TaskKinds : worker_finish(i, kind)
    \/ execute_batch_collect
    \/ execute_batch_wait
    \/ execute_batch_wait_timeout
    \/ execute_batch_return

\* The same steps for the batches of at most MaxWaitBatch commands.
NextDispatch ==
    \/ \E n \in 1..MaxWaitBatch : execute_batch_submit(n)
    \/ worker_start
    \/ \E i \in 1..MaxWaitBatch, kind \in TaskKinds : worker_finish(i, kind)
    \/ execute_batch_collect
    \/ execute_batch_wait
    \/ execute_batch_wait_timeout
    \/ execute_batch_return

(***************************************************************************)
(*                        Sampling intervals                               *)
(***************************************************************************)
\* Bounds of the interval model.
MaxRequests == 3
MaxLoadChanges == 1
MaxErrors == 1

\* Program constants, in milliseconds.
base_interval == 5000
OptimizationWindow == 30000
MinSamples == 5
MaxSamples == 10
ShortSleep == 100
MinInterval == 1000
MaxInterval == 10000

Domains == {"system_performance", "app_basic", "app_detailed", "network_stats",
            "device_info"}

\* The table ADBCollector.__init__ sets: the base interval of each domain.
BaseIntervals ==
    [k \in Domains |->
        CASE k = "system_performance" -> 3000
          [] k = "app_basic" -> 2000
          [] k = "app_detailed" -> 5000
          [] k = "network_stats" -> 4000
          [] k = "device_info" -> 60000]

Loads == {20, 50, 90, 150}

RECURSIVE Sum(_)
Sum(seq) == IF seq = <<>> THEN 0 ELSE Head(seq) + Sum(Tail(seq))

\* deque(maxlen=10).append
AppendBounded(seq, x) ==
    IF Len(seq) >= MaxSamples THEN Append(Tail(seq), x) ELSE Append(seq, x)

\* _adjust_interval, the new adaptive_interval: avg > base * 0.8 lengthens it
\* (x 1.2, at most 2 x base), avg < base * 0.3 shortens it (x 0.9, at least
\* 0.5 x base); avg is Sum(times) / Len(times).
AdjustedInterval(interval, times) ==
    IF 10 * Sum(times) > 8 * base_interval * Len(times)
    THEN Min((interval * 12) \div 10, base_interval * 2)
    ELSE IF 10 * Sum(times) < 3 * base_interval * Len(times)
    THEN Max((interval * 9) \div 10, base_interval \div 2)
    ELSE interval

\* Does _adjust_interval get past its two early returns?
Adjusts(elapsed, times) == ~(elapsed < OptimizationWindow) /\ ~(Len(times) < MinSamples)

\* EnhancedCache.get_stats()["hit_rate"] compared with 0.8 and 0.3 (it is 0
\* when there was no request).
HitRateHigh(stats) ==
    LET total == stats.l1_hit + stats.l2_hit + stats.miss
    IN  total # 0 /\ 10 * (stats.l1_hit + stats.l2_hit) > 8 * total
HitRateLow(stats) ==
    LET total == stats.l1_hit + stats.l2_hit + stats.miss
    IN  total = 0 \/ 10 * (stats.l1_hit + stats.l2_hit) < 3 * total

\* optimize_collection_intervals: the new table.
OptimizedIntervals(table, stats) ==
    LET scaled == [k \in Domains |->
                      IF HitRateHigh(stats) THEN (table[k] * 11) \div 10
                      ELSE IF HitRateLow(stats) THEN (table[k] * 9) \div 10
                      ELSE table[k]]
    IN  [k \in Domains |-> Max(MinInterval, Min(scaled[k], MaxInterval))]

NoAdjust == [ran |-> FALSE, before |-> 0, after |-> 0, held |-> 0, called |-> FALSE,
             elapsed |-> 0, total |-> 0, samples |-> 0]

InitInterval ==
    /\ adaptive_interval = base_interval
    /\ collection_times = <<>>
    /\ since_optimization = 0
    /\ error_count = 0
    /\ errors_total = 0
    /\ collection_intervals = BaseIntervals
    /\ load \in Loads
    /\ load_changes = 0
    /\ lastAdjust = NoAdjust

\* One iteration of OptimizedDataCollectionWorker.run in which the collection
\* succeeds: collect, record the duration, _adjust_interval, sleep.
worker_cycle ==
    LET collection_time == (adaptive_interval * load) \div 100
        times   == AppendBounded(collection_times, collection_time)
        elapsed == Min(OptimizationWindow, since_optimization + collection_time)
        adjusts == Adjusts(elapsed, times)
        interval == IF adjusts THEN AdjustedInterval(adaptive_interval, times)
                    ELSE adaptive_interval
        remaining_time == interval - collection_time
        sleep   == IF remaining_time > 0 THEN remaining_time ELSE ShortSleep
    IN  /\ collection_times' = times
        /\ adaptive_interval' = interval
        /\ error_count' = 0
        /\ since_optimization' =
              Min(OptimizationWindow, (IF adjusts THEN 0 ELSE elapsed) + sleep)
        /\ lastAdjust' =
              [ran |-> adjusts, before |-> adaptive_interval, after |-> interval,
               held |-> IF \A i \in DOMAIN times :
                              times[i] = (adaptive_interval * load) \div 100
                        THEN load ELSE 0,
               called |-> TRUE, elapsed |-> elapsed, total |-> Sum(times),
               samples |-> Len(times)]
        /\ UNCHANGED <<errors_total, collection_intervals, load, load_changes,
                       cache_stats>>
        /\ UNCHANGED intervalFrame

\* One iteration in which the collection raises: the error is counted and the
\* loop sleeps min(5.0, 0.5 * error_count) seconds.
worker_cycle_error ==
    /\ errors_total < MaxErrors
    /\ errors_total' = errors_total + 1
    /\ error_count' = error_count + 1
    /\ since_optimization' =
          Min(OptimizationWindow,
              since_optimization + Min(5000, 500 * (error_count + 1)))
    /\ lastAdjust' = NoAdjust
    /\ UNCHANGED <<adaptive_interval, collection_times, collection_intervals, load,
                   load_changes, cache_stats>>
    /\ UNCHANGED intervalFrame

\* The device gets faster or slower.
load_change(l) ==
    /\ load_changes < MaxLoadChanges
    /\ l # load
    /\ load' = l
    /\ load_changes' = load_changes + 1
    /\ lastAdjust' = NoAdjust
    /\ UNCHANGED <<adaptive_interval, collection_times, since_optimization, error_count,
                   errors_total, collection_intervals, cache_stats>>
    /\ UNCHANGED intervalFrame

\* A get of the cache, of which only the counter matters to the intervals.
cache_request(kind) ==
    /\ cache_stats.l1_hit + cache_stats.l2_hit + cache_stats.miss < MaxRequests
    /\ cache_stats' = [cache_stats EXCEPT ![kind] = @ + 1]
    /\ UNCHANGED intervalVars
    /\ UNCHANGED intervalFrame

\* ADBCollector.optimize_collection_intervals
optimize_collection_intervals ==
    /\ collection_intervals' = OptimizedIntervals(collection_intervals, cache_stats)
    /\ UNCHANGED <<adaptive_interval, collection_times, since_optimization, error_count,
                   errors_total, load, load_changes, lastAdjust, cache_stats>>
    /\ UNCHANGED intervalFrame

NextWorker ==
    \/ worker_cycle
    \/ worker_cycle_error
    \/ \E l \in Loads : load_change(l)

NextInterval ==
    \/ \E kind \in {"l1_hit", "l2_hit", "miss"} : cache_request(kind)
    \/ optimize_collection_intervals

(***************************************************************************)
(*                          Buffered writer                                *)
(***************************************************************************)
\* Bounds of the writer model.
MaxRecords == 51
MaxWriterClock == 6

\* Program constants of the record type system_performance and of the worker.
batch_size_limit == 50
flush_interval == 5
buffer_maxlen == 200
worker_batch_size == 50
worker_flush_interval == 5

\* OptimizedDataStorageService._add_to_batch: should_flush
ShouldFlush(len, elapsed) == len >= batch_size_limit \/ elapsed >= flush_interval

\* _batch_worker: should_flush and batch_data
WorkerShouldFlush(len, elapsed) ==
    (len >= worker_batch_size \/ (len > 0 /\ elapsed >= worker_flush_interval)) /\ len > 0

\* DatabaseConnectionManager.add_to_batch, called for n records: the records
\* are queued while batch processing runs; otherwise nothing is done with them.
QueueAfterAdd(queue, n) == IF batch_processing THEN queue + n ELSE queue
DroppedByAdd(n) == IF batch_processing THEN 0 ELSE n

\* A worker that keeps the records of a failed bulk insert for the next one.
BatchDataKeptOnFailure(len, commit_ok) == IF commit_ok THEN 0 ELSE len

\* _batch_worker: len(batch_data) after self._flush_batch(batch_data) and
\* batch_data.clear(); _flush_batch logs a failure and raises nothing.
BatchDataAfterFlush(len, commit_ok) == 0

InitWriter ==
    /\ batch_buffer = 0
    /\ since_flush = 0
    /\ batch_processing = TRUE
    /\ batch_queue = 0
    /\ bw_alive = TRUE
    /\ bw_batch_data = 0
    /\ bw_since_flush = 0
    /\ bulk_calls = <<>>
    /\ ds_clock = 0
    /\ ds_enqueued = 0
    /\ ds_flushes = <<>>
    /\ ds_dropped = 0
    /\ only_size_flushes = TRUE

\* OptimizedDataStorageService._add_to_batch with the _flush_buffer it calls.
add_to_batch ==
    /\ ds_enqueued < MaxRecords
    /\ ds_enqueued' = ds_enqueued + 1
    /\ LET len == Min(batch_buffer + 1, buffer_maxlen)
       IN  IF ShouldFlush(len, since_flush)
           THEN /\ batch_buffer' = 0
                /\ since_flush' = 0
                /\ batch_queue' = QueueAfterAdd(batch_queue, len)
                /\ ds_dropped' = ds_dropped + DroppedByAdd(len)
                /\ ds_flushes' = Append(ds_flushes, len)
                /\ only_size_flushes' = (only_size_flushes /\ len >= batch_size_limit)
           ELSE /\ batch_buffer' = len
                /\ UNCHANGED <<since_flush, batch_queue, ds_dropped, ds_flushes,
                               only_size_flushes>>
    /\ UNCHANGED <<batch_processing, bw_alive, bw_batch_data, bw_since_flush, bulk_calls,
                   ds_clock>>
    /\ UNCHANGED writerFrame

\* _batch_worker, one iteration that gets an item from the queue; commit_ok
\* tells whether the bulk insert of _flush_batch commits.
batch_worker_get(commit_ok) ==
    /\ bw_alive
    /\ batch_processing
    /\ batch_queue > 0
    /\ batch_queue' = batch_queue - 1
    /\ IF WorkerShouldFlush(bw_batch_data + 1, bw_since_flush)
       THEN /\ bulk_calls' = Append(bulk_calls, [size |-> bw_batch_data + 1,
                                                 ok |-> commit_ok])
            /\ bw_batch_data' = BatchDataAfterFlush(bw_batch_data + 1, commit_ok)
            /\ bw_since_flush' = 0
       ELSE /\ bw_batch_data' = bw_batch_data + 1
            /\ commit_ok
            /\ UNCHANGED <<bulk_calls, bw_since_flush>>
    /\ UNCHANGED <<batch_buffer, since_flush, batch_processing, bw_alive, ds_clock,
                   ds_enqueued, ds_flushes, ds_dropped, only_size_flushes>>
    /\ UNCHANGED writerFrame

\* _batch_worker, one iteration in which the queue stays empty (queue.Empty
\* after the timeout) and the time threshold has passed.
batch_worker_idle_flush(commit_ok) ==
    /\ bw_alive
    /\ batch_processing
    /\ batch_queue = 0
    /\ WorkerShouldFlush(bw_batch_data, bw_since_flush)
    /\ bulk_calls' = Append(bulk_calls, [size |-> bw_batch_data, ok |-> commit_ok])
    /\ bw_batch_data' = BatchDataAfterFlush(bw_batch_data, commit_ok)
    /\ bw_since_flush' = 0
    /\ UNCHANGED <<batch_buffer, since_flush, batch_processing, batch_queue, bw_alive,
                   ds_clock, ds_enqueued, ds_flushes, ds_dropped, only_size_flushes>>
    /\ UNCHANGED writerFrame

\* DatabaseConnectionManager.stop_batch_processing
stop_batch_processing ==
    /\ batch_processing
    /\ batch_processing' = FALSE
    /\ UNCHANGED <<batch_buffer, since_flush, batch_queue, bw_alive, bw_batch_data,
                   bw_since_flush, bulk_calls, ds_clock, ds_enqueued, ds_flushes,
                   ds_dropped, only_size_flushes>>
    /\ UNCHANGED writerFrame

\* _batch_worker leaves its loop and flushes what it holds.
batch_worker_exit(commit_ok) ==
    /\ bw_alive
    /\ ~batch_processing
    /\ bw_alive' = FALSE
    /\ IF bw_batch_data > 0
       THEN bulk_calls' = Append(bulk_calls, [size |-> bw_batch_data, ok |-> commit_ok])
       ELSE commit_ok /\ UNCHANGED bulk_calls
    /\ bw_batch_data' = 0
    /\ UNCHANGED <<batch_buffer, since_flush, batch_processing, batch_queue,
                   bw_since_flush, ds_clock, ds_enqueued, ds_flushes, ds_dropped,
                   only_size_flushes>>
    /\ UNCHANGED writerFrame

\* A second passes.
WriterTick ==
    /\ ds_clock < MaxWriterClock
    /\ ds_clock' = ds_clock + 1
    /\ since_flush' = Min(flush_interval, since_flush + 1)
    /\ bw_since_flush' = Min(worker_flush_interval, bw_since_flush + 1)
    /\ UNCHANGED <<batch_buffer, batch_processing, batch_queue, bw_alive, bw_batch_data,
                   bulk_calls, ds_enqueued, ds_flushes, ds_dropped, only_size_flushes>>
    /\ UNCHANGED writerFrame

NextWriter ==
    \/ add_to_batch
    \/ \E commit_ok \in BOOLEAN : batch_worker_get(commit_ok)
    \/ \E commit_ok \in BOOLEAN : batch_worker_idle_flush(commit_ok)
    \/ stop_batch_processing
    \/ \E commit_ok \in BOOLEAN : batch_worker_exit(commit_ok)
    \/ WriterTick

(***************************************************************************)
(*                     Two-phase app collection                            *)
(***************************************************************************)
\* Bounds of the app collection model.
MaxTopLines == 2
MaxPackages == 2

\* Names are sequences of characters; the common prefix "com." is left out.
PkgA == <<"a">>
PkgB == <<"b">>
ProcAService == <<"a", ".", "s">>
ProcAB == <<"a", "b">>
ProcOther == <<"x">>
ProcessNames == {PkgA, PkgB, ProcAService, ProcAB, ProcOther}

\* A line of top: the number of its columns, whether it holds 'grep' or
\* 'sh -c', and its last column; the other columns hold no package name.
TopLines == [width : {10, 11}, shell : BOOLEAN, last : ProcessNames]
TopSnapshots == UNION {[1..n -> TopLines] : n \in 0..MaxTopLines}

\* What phase 1 gives for top_all: the output, or None when the task failed.
NoTop == [failed |-> TRUE, lines |-> <<>>]
TopOutputs == {[failed |-> FALSE, lines |-> l] : l \in TopSnapshots} \cup {NoTop}

\* The None of _get_actual_process_name_from_top.
NoName == <<>>

\* The lists of packages a call is made with.
PackageLists == {l \in UNION {[1..n -> {PkgA, PkgB}] : n \in 0..MaxPackages} :
                    \A i, j \in DOMAIN l : i # j => l[i] # l[j]}

\* str.startswith
StartsWith(s, prefix) ==
    Len(s) >= Len(prefix) /\ SubSeq(s, 1, Len(prefix)) = prefix

\* `package_name in line`
InLine(package_name, line) ==
    \E i \in 1..Len(line.last) :
        /\ i + Len(package_name) - 1 <= Len(line.last)
        /\ SubSeq(line.last, i, i + Len(package_name) - 1) = package_name

\* The test a line passes to give the process name.
LineMatches(line, package_name) ==
    /\ InLine(package_name, line)
    /\ ~line.shell
    /\ line.width >= 11
    /\ StartsWith(line.last, package_name)

\* ADBCollector._get_actual_process_name_from_top; a top_output of None makes
\* strip() raise, which is caught.
RECURSIVE FirstMatch(_, _, _)
FirstMatch(lines, package_name, i) ==
    IF i > Len(lines) THEN NoName
    ELSE IF LineMatches(lines[i], package_name) THEN lines[i].last
    ELSE FirstMatch(lines, package_name, i + 1)

get_actual_process_name_from_top(top_output, package_name) ==
    IF top_output.failed THEN NoName ELSE FirstMatch(top_output.lines, package_name, 1)

\* actual_process_name or package_name
NameUsed(top_output, package_name) ==
    IF get_actual_process_name_from_top(top_output, package_name) = NoName
    THEN package_name
    ELSE get_actual_process_name_from_top(top_output, package_name)

\* The three commands of a package, as (id, dumpsys service, argument).
PhaseTwoCommands(package_name, process_name) ==
    << [id |-> <<"meminfo", package_name>>, service |-> "meminfo",
        target |-> process_name],
       [id |-> <<"gfxinfo", package_name>>, service |-> "gfxinfo",
        target |-> package_name],
       [id |-> <<"batterystats", package_name>>, service |-> "batterystats",
        target |-> package_name] >>

RECURSIVE BuildPhaseTwo(_, _, _)
BuildPhaseTwo(packages, top_output, i) ==
    IF i > Len(packages) THEN <<>>
    ELSE PhaseTwoCommands(packages[i], NameUsed(top_output, packages[i]))
         \o BuildPhaseTwo(packages, top_output, i + 1)

RECURSIVE Due(_, _, _)
Due(package_names, collected, i) ==
    IF i > Len(package_names) THEN <<>>
    ELSE (IF package_names[i] \in collected THEN <<>> ELSE <<package_names[i]>>)
         \o Due(package_names, collected, i + 1)

InitApp ==
    /\ ap_pc = "idle"
    /\ apps_to_update = <<>>
    /\ all_top_info = NoTop
    /\ actual_process_names = <<>>
    /\ batch_commands_phase2 = <<>>
    /\ ap_issued = <<>>
    /\ ap_collected = {}

\* get_multiple_app_performance up to the first execute_batch.
collect_apps_call(package_names) ==
    /\ ap_pc \in {"idle", "returned"}
    /\ apps_to_update' = Due(package_names, ap_collected, 1)
    /\ all_top_info' = NoTop
    /\ actual_process_names' = <<>>
    /\ batch_commands_phase2' = <<>>
    /\ IF Due(package_names, ap_collected, 1) = <<>>
       THEN ap_pc' = "returned" /\ ap_issued' = <<>>
       ELSE ap_pc' = "phase1" /\ ap_issued' = <<"phase1">>
    /\ UNCHANGED ap_collected
    /\ UNCHANGED appFrame

\* The first batch returns (top_output is None when the top task failed) and
\* the second batch is built and handed over.
collect_apps_phase1_done(top_output) ==
    /\ ap_pc = "phase1"
    /\ all_top_info' = top_output
    /\ actual_process_names' =
          [i \in DOMAIN apps_to_update |-> NameUsed(top_output, apps_to_update[i])]
    /\ batch_commands_phase2' = BuildPhaseTwo(apps_to_update, top_output, 1)
    /\ ap_issued' = Append(ap_issued, "phase2")
    /\ ap_pc' = "phase2"
    /\ UNCHANGED <<apps_to_update, ap_collected>>
    /\ UNCHANGED appFrame

\* The second batch returns, the results are stored and the call returns.
collect_apps_phase2_done ==
    /\ ap_pc = "phase2"
    /\ ap_collected' = ap_collected \cup {apps_to_update[i] : i \in DOMAIN apps_to_update}
    /\ ap_pc' = "returned"
    /\ UNCHANGED <<apps_to_update, all_top_info, actual_process_names,
                   batch_commands_phase2, ap_issued>>
    /\ UNCHANGED appFrame

\* The app_basic interval passes.
AppTick ==
    /\ ap_pc \in {"idle", "returned"}
    /\ ap_collected # {}
    /\ ap_collected' = {}
    /\ UNCHANGED <<ap_pc, apps_to_update, all_top_info, actual_process_names,
                   batch_commands_phase2, ap_issued>>
    /\ UNCHANGED appFrame

NextApp ==
    \/ \E package_names \in PackageLists : collect_apps_call(package_names)
    \/ \E top_output \in TopOutputs : collect_apps_phase1_done(top_output)
    \/ collect_apps_phase2_done
    \/ AppTick

\* One collection cycle with its first batch run by the BatchADBExecutor:
\* batch_commands_phase1 holds the commands cpuinfo_all (key 1) and top_all
\* (key 2).
PhaseOneBatch == 2

\* A dispatcher that hands the batch over and does not wait for it.
PhaseOneNotAwaited == eb_pc \in {"collect", "returned"}

\* phase1_results = self.batch_executor.execute_batch(...) has returned.
PhaseOneReturned == eb_pc = "returned"

\* all_top_info = phase1_results.get('top_all', ''): None when the result of
\* top_all is None, else the output of top.
TopGiven(top_output) ==
    IF 2 \in DOMAIN eb_results /\ eb_results[2] # None
    THEN top_output # NoTop
    ELSE top_output = NoTop

\* The outputs of top the cycle is followed with: None, no line or one line.
PhaseTopOutputs ==
    {[failed |-> FALSE, lines |-> <<l>>] : l \in TopLines}
        \cup {[failed |-> FALSE, lines |-> <<>>], NoTop}

\* The call of get_multiple_app_performance; one cycle is followed.
phase_call(package_names) ==
    /\ eb_pc = "idle"
    /\ collect_apps_call(package_names)

\* execute_batch(batch_commands_phase1, timeout=10): the submit loop.
phase_one_submit ==
    /\ ap_pc = "phase1"
    /\ execute_batch_submit(PhaseOneBatch)

\* The statements after the first execute_batch: the second batch is built
\* from its results and handed over.
phase_one_done(top_output) ==
    /\ PhaseOneReturned
    /\ TopGiven(top_output)
    /\ collect_apps_phase1_done(top_output)

NextPhases ==
    \/ \E package_names \in PackageLists : phase_call(package_names)
    \/ phase_one_submit
    \/ worker_start
    \/ \E i \in 1..PhaseOneBatch, kind \in TaskKinds : worker_finish(i, kind)
    \/ execute_batch_collect
    \/ execute_batch_wait
    \/ execute_batch_wait_timeout
    \/ execute_batch_return
    \/ \E top_output \in PhaseTopOutputs : phase_one_done(top_output)
    \/ collect_apps_phase2_done
    \/ AppTick

(***************************************************************************)
(*                        Power estimation                                 *)
(***************************************************************************)
\* Power is counted in thousandths of a mAh, CPU in tenths of a percent and
\* memory in MB (memory_pss / 1024), so that every product below is exact.
BasePower == 5000
CpuCap == 50000
MemoryCap == 20000
NetworkBonus == 8000
LowerBound == 100
UpperBound == 150000

\* The inputs tried: no CPU reading, -1 %, 0 %, 0.1 %, 50 %, 62.5 %, 100 %,
\* 1000 %; no memory reading, 0 MB, 1 MB, 1000 MB, 10^8 MB.
Absent == [present |-> FALSE, value |-> 0]
CpuInputs == {Absent} \cup {[present |-> TRUE, value |-> v] :
                               v \in {-10, 0, 1, 500, 625, 1000, 10000}}
MemoryInputs == {Absent} \cup {[present |-> TRUE, value |-> v] :
                                  v \in {0, 1, 1000, 100000000}}
ForegroundInputs == {"yes", "no", "raises"}

\* cpu_usage is not None and cpu_usage > 0
CpuCounts(cpu) == cpu.present /\ cpu.value > 0

\* min(cpu_usage * 0.8, 50)
CpuPower(cpu) == Min(cpu.value * 80, CpuCap)

\* min(memory_mb * 0.02, 20)
MemoryPower(mem) == Min(mem.value * 20, MemoryCap)

\* foreground_multiplier, in tenths
ForegroundMultiplier(fg) ==
    IF fg = "yes" THEN 18 ELSE IF fg = "no" THEN 4 ELSE 10

\* total_power before the multiplier
TotalPower(cpu, mem, net) ==
    BasePower
    + (IF CpuCounts(cpu) THEN CpuPower(cpu) ELSE 0)
    + (IF mem.present THEN MemoryPower(mem) ELSE 0)
    + (IF net THEN NetworkBonus ELSE 0)

\* components_found
ComponentsFound(cpu, mem, net) ==
    1 + (IF CpuCounts(cpu) THEN 1 ELSE 0) + (IF mem.present THEN 1 ELSE 0)
      + (IF net THEN 1 ELSE 0)

\* max(0.1, min(estimated_power, 150))
Clamp(power) == Max(LowerBound, Min(power, UpperBound))

\* round(estimated_power, 2): to the nearest hundredth of a mAh
Round2(power) == ((power + 5) \div 10) * 10

\* A check that lets the base power alone count as data.
ReturnsWithoutData(components) == components > 0

\* components_found > 1
Returns(components) == components > 1

NoPower == [returned |-> FALSE, value |-> 0]

\* ADBCollector._estimate_power_consumption
EstimatedPower(cpu, mem, fg, net, raises) ==
    IF raises THEN NoPower
    ELSE IF Returns(ComponentsFound(cpu, mem, net))
         THEN [returned |-> TRUE,
               value |-> Round2(Clamp((TotalPower(cpu, mem, net)
                                         * ForegroundMultiplier(fg)) \div 10))]
         ELSE NoPower

InitPower ==
    /\ pw_pc = "ready"
    /\ cpu_usage \in CpuInputs
    /\ memory_info \in MemoryInputs
    /\ foreground \in ForegroundInputs
    /\ network_result \in BOOLEAN
    /\ pw_raises \in BOOLEAN
    /\ components_found = 0
    /\ pw_result = NoPower

estimate_power_consumption ==
    /\ pw_pc = "ready"
    /\ pw_pc' = "done"
    /\ components_found' = IF pw_raises THEN 0
                           ELSE ComponentsFound(cpu_usage, memory_info, network_result)
    /\ pw_result' = EstimatedPower(cpu_usage, memory_info, foreground, network_result,
                                   pw_raises)
    /\ UNCHANGED <<cpu_usage, memory_info, foreground, network_result, pw_raises>>
    /\ UNCHANGED powerFrame

NextPower == estimate_power_consumption

(***************************************************************************)
(*                 Starting and stopping the polling thread                *)
(***************************************************************************)
InitCancel ==
    /\ running = FALSE
    /\ wk_pc = "none"
    /\ gui_pc = "idle"

\* OptimizedMonitorViewWidget.start_monitoring: the worker is created
\* (running = False) and its thread is started; run has not begun yet.
start_monitoring ==
    /\ gui_pc = "idle"
    /\ running' = FALSE
    /\ wk_pc' = "started"
    /\ gui_pc' = "monitoring"
    /\ UNCHANGED cancelFrame

\* OptimizedDataCollectionWorker.run begins: self.running = True.
run_begin ==
    /\ wk_pc = "started"
    /\ running' = TRUE
    /\ wk_pc' = "loop"
    /\ UNCHANGED gui_pc
    /\ UNCHANGED cancelFrame

\* while self.running: one iteration of the loop, from test to test.
run_cycle ==
    /\ wk_pc = "loop"
    /\ running
    /\ (worker_cycle \/ worker_cycle_error)

\* while self.running: the test fails and run returns.
run_exit ==
    /\ wk_pc = "loop"
    /\ ~running
    /\ wk_pc' = "finished"
    /\ UNCHANGED <<running, gui_pc>>
    /\ UNCHANGED cancelFrame

\* OptimizedMonitorViewWidget.stop_monitoring up to wait(): the flag is
\* cleared; quit() ends an event loop, which run does not have.
stop_monitoring ==
    /\ gui_pc = "monitoring"
    /\ running' = FALSE
    /\ gui_pc' = "waiting"
    /\ UNCHANGED wk_pc
    /\ UNCHANGED cancelFrame

\* data_collection_worker.wait() returns: the thread has finished.
stop_monitoring_return ==
    /\ gui_pc = "waiting"
    /\ wk_pc = "finished"
    /\ gui_pc' = "stopped"
    /\ UNCHANGED <<running, wk_pc>>
    /\ UNCHANGED cancelFrame

NextCancel ==
    \/ start_monitoring
    \/ run_begin
    \/ run_cycle
    \/ run_exit
    \/ stop_monitoring
    \/ stop_monitoring_return
    \/ \E l \in Loads : load_change(l)

\* start_monitoring called again, up to wait(): hasattr(self,
\* 'data_collection_worker') holds, quit() ends an event loop, which run does
\* not have, and the running flag is left as it is.
restart_monitoring ==
    /\ gui_pc \in {"monitoring", "stopped"}
    /\ gui_pc' = "restarting"
    /\ UNCHANGED <<running, wk_pc>>
    /\ UNCHANGED cancelFrame

\* wait() returns, the old thread having finished: a new worker is created
\* (running = False, the base interval, no durations) and started.
restart_monitoring_return ==
    /\ gui_pc = "restarting"
    /\ wk_pc = "finished"
    /\ running' = FALSE
    /\ wk_pc' = "started"
    /\ gui_pc' = "monitoring"
    /\ adaptive_interval' = base_interval
    /\ collection_times' = <<>>
    /\ since_optimization' = 0
    /\ error_count' = 0
    /\ lastAdjust' = NoAdjust
    /\ UNCHANGED <<errors_total, collection_intervals, load, load_changes>>
    /\ UNCHANGED <<cacheVars, runVars, batchVars, writerVars, appVars, powerVars,
                   deviceVars, netVars, freshVars, ccVars, prVars, lkVars>>

NextRestart ==
    \/ start_monitoring
    \/ run_begin
    \/ run_cycle
    \/ run_exit
    \/ stop_monitoring
    \/ stop_monitoring_return
    \/ restart_monitoring
    \/ restart_monitoring_return
    \/ \E l \in Loads : load_change(l)

(***************************************************************************)
(*                          Device scoping                                 *)
(***************************************************************************)
\* Bounds of the device model.
MaxIssued == 3
MaxDeviceLines == 2

Serials == {"emulator-5554", "R58M"}
DeviceStates == {"device", "offline", "unauthorized"}

\* The lines of `adb devices` after the header: serial, tab, state.
DeviceLines == [serial : Serials, state : DeviceStates]
DevicesOutputs == UNION {[1..n -> DeviceLines] : n \in 0..MaxDeviceLines}

\* ADBCollector._parse_devices: the serials of the lines that hold '\tdevice'.
parse_devices(devices_output) ==
    LET Attached(line) == line.state = "device"
        Serial(line) == line.serial
    IN  [i \in DOMAIN SelectSeq(devices_output, Attached) |->
            Serial(SelectSeq(devices_output, Attached)[i])]

\* cmd = ["adb"]; if self.device_id: cmd.extend(["-s", self.device_id]);
\* cmd.extend(command.split())
Argv(device, command) ==
    IF device # None THEN <<"adb", "-s", device, command>> ELSE <<"adb", command>>

Issue(log, via, device, command) ==
    Append(log, [device_id |-> device_id, via |-> via, argv |-> Argv(device, command)])

InitDevice ==
    /\ device_id = None
    /\ executor_device_id = None
    /\ issued = <<>>

\* ADBCollector.check_adb_connection; failed tells that `adb devices` gave no
\* output.
check_adb_connection(devices_output, failed) ==
    /\ Len(issued) < MaxIssued
    /\ issued' = Issue(issued, "runner", device_id, "devices")
    /\ device_id' = IF ~failed /\ parse_devices(devices_output) # <<>>
                    THEN parse_devices(devices_output)[1]
                    ELSE device_id
    /\ UNCHANGED executor_device_id
    /\ UNCHANGED deviceFrame

\* ADBCollector._run_adb_command: the invocation is built.
device_run_adb_command(command) ==
    /\ Len(issued) < MaxIssued
    /\ issued' = Issue(issued, "runner", device_id, command)
    /\ UNCHANGED <<device_id, executor_device_id>>
    /\ UNCHANGED deviceFrame

\* BatchADBExecutor._execute_single_command: the invocation is built.
device_execute_single_command(command) ==
    /\ Len(issued) < MaxIssued
    /\ issued' = Issue(issued, "dispatcher", executor_device_id, command)
    /\ UNCHANGED <<device_id, executor_device_id>>
    /\ UNCHANGED deviceFrame

NextDevice ==
    \/ \E devices_output \in DevicesOutputs, failed \in BOOLEAN :
          check_adb_connection(devices_output, failed)
    \/ \E command \in {"shell dumpsys cpuinfo", "shell top -n 1 -b"} :
          device_run_adb_command(command)
    \/ \E command \in {"shell dumpsys cpuinfo", "shell top -n 1 -b"} :
          device_execute_single_command(command)

(***************************************************************************)
(*                       Parsing /proc/net/dev                             *)
(***************************************************************************)
\* Bounds of the parser model.
MaxNetTime == 3
MaxNetLines == 2

\* A data line of /proc/net/dev: the interface name, the number of columns
\* after the colon, and the bytes received and sent.
NetLines ==
    { [name |-> "lo", columns |-> 16, rx_bytes |-> 4096, tx_bytes |-> 4096],
      [name |-> "wlan0", columns |-> 8, rx_bytes |-> 1024, tx_bytes |-> 0],
      [name |-> "wlan0", columns |-> 16, rx_bytes |-> 1024, tx_bytes |-> 0],
      [name |-> "rmnet0", columns |-> 16, rx_bytes |-> 3072, tx_bytes |-> 2048] }

\* A text: empty, or two header lines followed by data lines.
NetTexts == [empty : {FALSE}, data : UNION {[1..n -> NetLines] : n \in 0..MaxNetLines}]
               \cup {[empty |-> TRUE, data |-> <<>>]}
NoText == [empty |-> TRUE, data |-> <<>>]

\* The lines that are counted: not lo, at least 9 columns.
Counted(line) == line.name # "lo" /\ line.columns >= 9

RECURSIVE TotalRx(_)
TotalRx(data) ==
    IF data = <<>> THEN 0
    ELSE (IF Counted(data[1]) THEN data[1].rx_bytes ELSE 0) + TotalRx(Tail(data))

RECURSIVE TotalTx(_)
TotalTx(data) ==
    IF data = <<>> THEN 0
    ELSE (IF Counted(data[1]) THEN data[1].tx_bytes ELSE 0) + TotalTx(Tail(data))

\* Records hold hundredths of a KB (or of a KB/s); has_speed tells whether the
\* keys network, network_rx and network_tx are in the record.
NetRecord(rx_total, tx_total, has_speed, network, rx, tx) ==
    [network_rx_total |-> rx_total, network_tx_total |-> tx_total,
     has_speed |-> has_speed, network |-> network, network_rx |-> rx,
     network_tx |-> tx]

\* ADBCollector._get_default_network_data
DefaultNetworkData == NetRecord(0, 0, TRUE, 0, 0, 0)

NoRecord == NetRecord(0, 0, FALSE, 0, 0, 0)

\* The text gives the default record without touching _last_system_network.
GivesDefault(text) == text.empty \/ Len(text.data) < 1

\* ADBCollector._parse_network_data: the record returned at current_time.
ParsedNetworkData(text, last, current_time) ==
    IF GivesDefault(text) THEN DefaultNetworkData
    ELSE LET rx_kb == (TotalRx(text.data) * 100) \div 1024
             tx_kb == (TotalTx(text.data) * 100) \div 1024
             time_diff == current_time - last.time
         IN  IF ~last.present THEN NetRecord(rx_kb, tx_kb, TRUE, 0, 0, 0)
             ELSE IF time_diff > 0
                  THEN LET rx_speed == (rx_kb - last.rx) \div time_diff
                           tx_speed == (tx_kb - last.tx) \div time_diff
                       IN  NetRecord(rx_kb, tx_kb, TRUE, Max(0, rx_speed + tx_speed),
                                     Max(0, rx_speed), Max(0, tx_speed))
                  ELSE NetRecord(rx_kb, tx_kb, FALSE, 0, 0, 0)

\* ADBCollector._parse_network_data: _last_system_network after the parse.
LastAfterParse(text, last, current_time) ==
    IF GivesDefault(text) THEN last
    ELSE [present |-> TRUE, time |-> current_time,
          rx |-> (TotalRx(text.data) * 100) \div 1024,
          tx |-> (TotalTx(text.data) * 100) \div 1024]

InitNet ==
    /\ last_system_network = [present |-> FALSE, time |-> 0, rx |-> 0, tx |-> 0]
    /\ nt_now = 0
    /\ nt_text = NoText
    /\ nt_result = NoRecord
    /\ nt_prev_text = NoText
    /\ nt_prev_result = NoRecord
    /\ nt_parses = 0

\* One call of _parse_network_data, elapsed seconds after the last one.
parse_network_data(text, elapsed) ==
    /\ nt_now + elapsed <= MaxNetTime
    /\ nt_now' = nt_now + elapsed
    /\ nt_result' = ParsedNetworkData(text, last_system_network, nt_now + elapsed)
    /\ last_system_network' = LastAfterParse(text, last_system_network, nt_now + elapsed)
    /\ nt_text' = text
    /\ nt_prev_text' = nt_text
    /\ nt_prev_result' = nt_result
    /\ nt_parses' = Min(2, nt_parses + 1)
    /\ UNCHANGED netFrame

NextNet == \E text \in NetTexts, elapsed \in 0..2 : parse_network_data(text, elapsed)

(***************************************************************************)
(*                      Fresh state of the collector                       *)
(***************************************************************************)
\* Bound of the model.
MaxFreshTime == 3

\* Program constant (scaled with ttl: 3 s and 2 s against a ttl of 30 s in the
\* source): the sampling interval of system_performance and of app_basic.
FreshInterval == 1

FreshPackages == {"com.a", "com.b"}
FreshPackageLists == {<<>>, <<"com.a">>, <<"com.b">>, <<"com.a", "com.b">>,
                      <<"com.b", "com.a">>}
SystemKey == "system_performance"

\* cache_key = f"app_performance_{package_name}"
AppCacheKey(package_name) ==
    IF package_name = "com.a" THEN "app_performance_com.a" ELSE "app_performance_com.b"

FreshKeys == {SystemKey} \cup {AppCacheKey(p) : p \in FreshPackages}

\* The records a collection gives: a system record with data, with nothing
\* but the default network data (_get_system_batch_data when no command gave
\* output) or the empty dict; an app record with data or with the key
\* app_package only.
SystemFull == "system record"
SystemZeros == "{'network_rx_total': 0.0, ...}"
SystemEmpty == "{}"
AppFull == "app record"
AppBare == "{'app_package'}"

\* A collector that never takes the record of the cache.
NeverTruthy(data) == FALSE

\* if cached_data:
Truthy(data) == data # None /\ data # SystemEmpty

\* No command of the collection gave output.
AllAbsent(data) == data \in {SystemEmpty, SystemZeros, AppBare}

\* current_time - self._last_collection_time[key] < interval
IsFresh(times, key, current_time) == current_time - times[key] < FreshInterval

NoCall == [domain |-> "none", fresh |-> FALSE, from_cache |-> FALSE,
           commands |-> FALSE, all_absent |-> FALSE, stamped |-> FALSE,
           primary_empty |-> FALSE, fallback |-> FALSE]

InitFresh ==
    /\ fr_now = FreshInterval
    /\ last_collection_time = [k \in FreshKeys |-> 0]
    /\ fr_l1 = <<>>
    /\ fr_l2 = <<>>
    /\ fr_last = NoCall

\* ADBCollector.get_system_performance with _get_system_performance_fallback;
\* batch is what _get_system_batch_data does, fallback what the three
\* commands of the fallback give.  _get_system_batch_data returns a record
\* with data ("usable") or, when no command gave output, the default network
\* data ("zeros"); it gives {} or raises ("fails") only when one of its calls
\* raises, which no output of a command brings about.
get_system_performance(batch, fallback) ==
    LET fresh  == IsFresh(last_collection_time, SystemKey, fr_now)
        got    == GetResult(fr_l1, fr_l2, SystemKey, fr_now, None)
        l1a    == IF fresh THEN got.l1 ELSE fr_l1
        l2a    == IF fresh THEN got.l2 ELSE fr_l2
        served == fresh /\ Truthy(got.data)
        data   == IF batch = "usable" THEN SystemFull
                  ELSE IF batch = "zeros" THEN SystemZeros
                  ELSE IF fallback = "full" THEN SystemFull ELSE SystemEmpty
        stores == batch # "fails" \/ fallback # "raises"
        put    == PutResult(l1a, l2a, SystemKey, data, fr_now)
    IN  /\ fr_l1' = IF served THEN l1a ELSE IF stores THEN put.l1 ELSE l1a
        /\ fr_l2' = IF served THEN l2a ELSE IF stores THEN put.l2 ELSE l2a
        /\ last_collection_time' =
              IF ~served /\ stores
              THEN [last_collection_time EXCEPT ![SystemKey] = fr_now]
              ELSE last_collection_time
        /\ fr_last' = [domain |-> "system", fresh |-> fresh, from_cache |-> served,
                       commands |-> ~served,
                       all_absent |-> ~served /\ AllAbsent(data),
                       stamped |-> ~served /\ stores,
                       primary_empty |-> ~served /\ batch # "usable",
                       fallback |-> ~served /\ batch = "fails"]
        /\ UNCHANGED fr_now
        /\ UNCHANGED freshFrame

\* ADBCollector.get_app_performance; data is the record the batch gives.
get_app_performance(package_name, data) ==
    LET key    == AppCacheKey(package_name)
        fresh  == IsFresh(last_collection_time, key, fr_now)
        got    == GetResult(fr_l1, fr_l2, key, fr_now, None)
        l1a    == IF fresh THEN got.l1 ELSE fr_l1
        l2a    == IF fresh THEN got.l2 ELSE fr_l2
        served == fresh /\ Truthy(got.data)
        put    == PutResult(l1a, l2a, key, data, fr_now)
    IN  /\ fr_l1' = IF served THEN l1a ELSE put.l1
        /\ fr_l2' = IF served THEN l2a ELSE put.l2
        /\ last_collection_time' =
              IF served THEN last_collection_time
              ELSE [last_collection_time EXCEPT ![key] = fr_now]
        /\ fr_last' = [domain |-> "app", fresh |-> fresh, from_cache |-> served,
                       commands |-> ~served,
                       all_absent |-> ~served /\ AllAbsent(data),
                       stamped |-> ~served,
                       primary_empty |-> ~served /\ AllAbsent(data),
                       fallback |-> FALSE]
        /\ UNCHANGED fr_now
        /\ UNCHANGED freshFrame

\* get_multiple_app_performance, the loop that sorts the packages: the fresh
\* ones are looked up in the cache, the others are to be updated.
RECURSIVE ScanPackages(_, _, _, _, _)
ScanPackages(package_names, i, l1, l2, acc) ==
    IF i > Len(package_names) THEN [l1 |-> l1, l2 |-> l2, acc |-> acc]
    ELSE LET p   == package_names[i]
             got == GetResult(l1, l2, AppCacheKey(p), fr_now, None)
         IN  IF ~IsFresh(last_collection_time, AppCacheKey(p), fr_now)
             THEN ScanPackages(package_names, i + 1, l1, l2,
                               [acc EXCEPT !.update = Append(@, p)])
             ELSE ScanPackages(package_names, i + 1, got.l1, got.l2,
                               [acc EXCEPT !.fresh = @ \cup {p},
                                           !.served = IF Truthy(got.data)
                                                      THEN @ \cup {p} ELSE @])

\* get_multiple_app_performance, the loop that stores the collected records.
RECURSIVE StorePackages(_, _, _, _, _)
StorePackages(update, i, l1, l2, data) ==
    IF i > Len(update) THEN [l1 |-> l1, l2 |-> l2]
    ELSE LET put == PutResult(l1, l2, AppCacheKey(update[i]), data, fr_now)
         IN  StorePackages(update, i + 1, put.l1, put.l2, data)

\* ADBCollector.get_multiple_app_performance; data is the record the two
\* batches give for each package that is updated.
get_multiple_app_performance(package_names, data) ==
    LET scan   == ScanPackages(package_names, 1, fr_l1, fr_l2,
                               [update |-> <<>>, fresh |-> {}, served |-> {}])
        update == scan.acc.update
        store  == StorePackages(update, 1, scan.l1, scan.l2, data)
        stamps == {AppCacheKey(update[i]) : i \in DOMAIN update}
    IN  /\ fr_l1' = store.l1
        /\ fr_l2' = store.l2
        /\ last_collection_time' =
              [k \in FreshKeys |-> IF k \in stamps THEN fr_now
                                   ELSE last_collection_time[k]]
        /\ fr_last' = [domain |-> "apps",
                       fresh |-> scan.acc.fresh # {},
                       from_cache |-> scan.acc.fresh # {}
                                      /\ scan.acc.fresh = scan.acc.served,
                       commands |-> scan.acc.fresh # {} /\ update # <<>>
                                    /\ \E i \in DOMAIN update :
                                          update[i] \in scan.acc.fresh,
                       all_absent |-> update # <<>> /\ AllAbsent(data),
                       stamped |-> update # <<>>,
                       primary_empty |-> update # <<>> /\ AllAbsent(data),
                       fallback |-> FALSE]
        /\ UNCHANGED fr_now
        /\ UNCHANGED freshFrame

FreshTick ==
    /\ fr_now < MaxFreshTime
    /\ fr_now' = fr_now + 1
    /\ fr_last' = NoCall
    /\ UNCHANGED <<last_collection_time, fr_l1, fr_l2>>
    /\ UNCHANGED freshFrame

NextFresh ==
    \/ \E batch \in {"usable", "zeros"}, fallback \in {"full", "empty", "raises"} :
          get_system_performance(batch, fallback)
    \/ \E package_name \in FreshPackages, data \in {AppFull, AppBare} :
          get_app_performance(package_name, data)
    \/ \E package_names \in FreshPackageLists, data \in {AppFull, AppBare} :
          get_multiple_app_performance(package_names, data)
    \/ FreshTick

(***************************************************************************)
(*                  EnhancedCache under two threads                        *)
(***************************************************************************)
\* Bound of the model: the operations the two threads start.
MaxCacheOps == 2

Threads == {"worker", "gui"}
CcKeys == 1..3

\* Times of the entries the cache starts with: 0 is older than 2 * ttl, 1 is
\* older than ttl, 2 and later are younger than ttl; no entry ages while the
\* operations run.
FreshInL1(time) == time >= 2
FreshInL2(time) == time >= 1

EmptyDict == [k \in {} |-> 0]

\* d[key] = time
DictSet(dict, key, time) ==
    [k \in DOMAIN dict \cup {key} |-> IF k = key THEN time ELSE dict[k]]

\* del d[key]
DictDel(dict, key) == [k \in DOMAIN dict \ {key} |-> dict[k]]

\* min(d.keys(), key=lambda k: d[k]['time'])
DictOldest(dict) == CHOOSE k \in DOMAIN dict : \A j \in DOMAIN dict : dict[k] <= dict[j]

ThreadIdle == [pc |-> "idle", key |-> 0, oldest_key |-> 0, timestamp |-> 0]

\* The thread moves to the statement pc.
Goto(t, pc) == cc_th' = [cc_th EXCEPT ![t].pc = pc]

\* The statement raises (KeyError, or ValueError of min): the operation ends.
Raises(t) ==
    /\ cc_th' = [cc_th EXCEPT ![t] = ThreadIdle]
    /\ cc_raised' = cc_raised \cup {t}
    /\ UNCHANGED <<cc_l1, cc_l2>>

\* A cache filled by earlier, sequential puts: tier-1 is full, key 3 may have
\* been demoted to tier-2.
InitCc ==
    /\ cc_l1 \in {[k \in {1, 2} |-> k + 1], [k \in {1, 2} |-> IF k = 1 THEN 1 ELSE 3]}
    /\ cc_l2 \in {EmptyDict, [k \in {3} |-> 1], [k \in {3} |-> 0]}
    /\ cc_clock = 4
    /\ cc_th = [t \in Threads |-> ThreadIdle]
    /\ cc_raised = {}
    /\ cc_ops = 0
    /\ cc_gets = 0

\* A thread calls put(key, data): timestamp = time.time().
cc_put_call(t, key) ==
    /\ cc_th[t].pc = "idle"
    /\ cc_ops < MaxCacheOps
    /\ cc_ops' = cc_ops + 1
    /\ cc_th' = [cc_th EXCEPT ![t] = [pc |-> "put_len", key |-> key, oldest_key |-> 0,
                                      timestamp |-> cc_clock]]
    /\ cc_clock' = cc_clock + 1
    /\ UNCHANGED <<cc_l1, cc_l2, cc_raised, cc_gets>>
    /\ UNCHANGED ccFrame

\* EnhancedCache.put: the next statement of the thread.
cc_put_step(t) ==
    LET th == cc_th[t]
    IN  /\ th.pc \in {"put_len", "put_min", "put_copy", "put_del", "put_store",
                      "put_len2", "put_min2", "put_del2"}
        /\ CASE th.pc = "put_len" ->
                  \* if len(self.l1_cache) >= self.max_l1_size:
                  /\ Goto(t, IF Cardinality(DOMAIN cc_l1) >= max_l1_size
                             THEN "put_min" ELSE "put_store")
                  /\ UNCHANGED <<cc_l1, cc_l2, cc_raised>>
             [] th.pc = "put_min" ->
                  \* oldest_key = min(self.l1_cache.keys(), ...)
                  IF DOMAIN cc_l1 = {} THEN Raises(t)
                  ELSE /\ cc_th' = [cc_th EXCEPT ![t].pc = "put_copy",
                                                 ![t].oldest_key = DictOldest(cc_l1)]
                       /\ UNCHANGED <<cc_l1, cc_l2, cc_raised>>
             [] th.pc = "put_copy" ->
                  \* self.l2_cache[oldest_key] = self.l1_cache[oldest_key]
                  IF th.oldest_key \notin DOMAIN cc_l1 THEN Raises(t)
                  ELSE /\ cc_l2' = DictSet(cc_l2, th.oldest_key, cc_l1[th.oldest_key])
                       /\ Goto(t, "put_del")
                       /\ UNCHANGED <<cc_l1, cc_raised>>
             [] th.pc = "put_del" ->
                  \* del self.l1_cache[oldest_key]
                  IF th.oldest_key \notin DOMAIN cc_l1 THEN Raises(t)
                  ELSE /\ cc_l1' = DictDel(cc_l1, th.oldest_key)
                       /\ Goto(t, "put_store")
                       /\ UNCHANGED <<cc_l2, cc_raised>>
             [] th.pc = "put_store" ->
                  \* self.l1_cache[key] = {'data': data, 'time': timestamp}
                  /\ cc_l1' = DictSet(cc_l1, th.key, th.timestamp)
                  /\ Goto(t, "put_len2")
                  /\ UNCHANGED <<cc_l2, cc_raised>>
             [] th.pc = "put_len2" ->
                  \* if len(self.l2_cache) >= self.max_l2_size:
                  /\ IF Cardinality(DOMAIN cc_l2) >= max_l2_size
                     THEN Goto(t, "put_min2")
                     ELSE cc_th' = [cc_th EXCEPT ![t] = ThreadIdle]
                  /\ UNCHANGED <<cc_l1, cc_l2, cc_raised>>
             [] th.pc = "put_min2" ->
                  \* oldest_key = min(self.l2_cache.keys(), ...)
                  IF DOMAIN cc_l2 = {} THEN Raises(t)
                  ELSE /\ cc_th' = [cc_th EXCEPT ![t].pc = "put_del2",
                                                 ![t].oldest_key = DictOldest(cc_l2)]
                       /\ UNCHANGED <<cc_l1, cc_l2, cc_raised>>
             [] th.pc = "put_del2" ->
                  \* del self.l2_cache[oldest_key]
                  IF th.oldest_key \notin DOMAIN cc_l2 THEN Raises(t)
                  ELSE /\ cc_l2' = DictDel(cc_l2, th.oldest_key)
                       /\ cc_th' = [cc_th EXCEPT ![t] = ThreadIdle]
                       /\ UNCHANGED <<cc_l1, cc_raised>>
        /\ UNCHANGED <<cc_clock, cc_ops, cc_gets>>
        /\ UNCHANGED ccFrame

\* A thread calls get(key), with no fetch_func.
cc_get_call(t, key) ==
    /\ cc_th[t].pc = "idle"
    /\ cc_ops < MaxCacheOps
    /\ cc_ops' = cc_ops + 1
    /\ cc_th' = [cc_th EXCEPT ![t] = [pc |-> "get_in1", key |-> key, oldest_key |-> 0,
                                      timestamp |-> 0]]
    /\ cc_gets' = cc_gets + 1
    /\ UNCHANGED <<cc_l1, cc_l2, cc_clock, cc_raised>>
    /\ UNCHANGED ccFrame

\* EnhancedCache.get: the next statement of the thread.
cc_get_step(t) ==
    LET th == cc_th[t]
    IN  /\ th.pc \in {"get_in1", "get_age1", "get_ret1", "get_del1", "get_in2",
                      "get_age2", "get_promote", "get_del2", "get_ret2", "get_drop2"}
        /\ CASE th.pc = "get_in1" ->
                  \* if key in self.l1_cache:
                  /\ Goto(t, IF th.key \in DOMAIN cc_l1 THEN "get_age1" ELSE "get_in2")
                  /\ UNCHANGED <<cc_l1, cc_l2, cc_raised>>
             [] th.pc = "get_age1" ->
                  \* if current_time - self.l1_cache[key]['time'] < ttl:
                  IF th.key \notin DOMAIN cc_l1 THEN Raises(t)
                  ELSE /\ Goto(t, IF FreshInL1(cc_l1[th.key]) THEN "get_ret1"
                                  ELSE "get_del1")
                       /\ UNCHANGED <<cc_l1, cc_l2, cc_raised>>
             [] th.pc = "get_ret1" ->
                  \* return self.l1_cache[key]['data']
                  IF th.key \notin DOMAIN cc_l1 THEN Raises(t)
                  ELSE /\ cc_th' = [cc_th EXCEPT ![t] = ThreadIdle]
                       /\ UNCHANGED <<cc_l1, cc_l2, cc_raised>>
             [] th.pc = "get_del1" ->
                  \* del self.l1_cache[key]
                  IF th.key \notin DOMAIN cc_l1 THEN Raises(t)
                  ELSE /\ cc_l1' = DictDel(cc_l1, th.key)
                       /\ Goto(t, "get_in2")
                       /\ UNCHANGED <<cc_l2, cc_raised>>
             [] th.pc = "get_in2" ->
                  \* if key in self.l2_cache: ... else the miss is returned
                  /\ IF th.key \in DOMAIN cc_l2 THEN Goto(t, "get_age2")
                     ELSE cc_th' = [cc_th EXCEPT ![t] = ThreadIdle]
                  /\ UNCHANGED <<cc_l1, cc_l2, cc_raised>>
             [] th.pc = "get_age2" ->
                  \* if current_time - self.l2_cache[key]['time'] < ttl * 2:
                  IF th.key \notin DOMAIN cc_l2 THEN Raises(t)
                  ELSE /\ Goto(t, IF FreshInL2(cc_l2[th.key]) THEN "get_promote"
                                  ELSE "get_drop2")
                       /\ UNCHANGED <<cc_l1, cc_l2, cc_raised>>
             [] th.pc = "get_promote" ->
                  \* self.l1_cache[key] = self.l2_cache[key]
                  IF th.key \notin DOMAIN cc_l2 THEN Raises(t)
                  ELSE /\ cc_l1' = DictSet(cc_l1, th.key, cc_l2[th.key])
                       /\ Goto(t, "get_del2")
                       /\ UNCHANGED <<cc_l2, cc_raised>>
             [] th.pc = "get_del2" ->
                  \* del self.l2_cache[key]
                  IF th.key \notin DOMAIN cc_l2 THEN Raises(t)
                  ELSE /\ cc_l2' = DictDel(cc_l2, th.key)
                       /\ Goto(t, "get_ret2")
                       /\ UNCHANGED <<cc_l1, cc_raised>>
             [] th.pc = "get_ret2" ->
                  \* return self.l1_cache[key]['data']
                  IF th.key \notin DOMAIN cc_l1 THEN Raises(t)
                  ELSE /\ cc_th' = [cc_th EXCEPT ![t] = ThreadIdle]
                       /\ UNCHANGED <<cc_l1, cc_l2, cc_raised>>
             [] th.pc = "get_drop2" ->
                  \* del self.l2_cache[key], then the miss is returned
                  IF th.key \notin DOMAIN cc_l2 THEN Raises(t)
                  ELSE /\ cc_l2' = DictDel(cc_l2, th.key)
                       /\ cc_th' = [cc_th EXCEPT ![t] = ThreadIdle]
                       /\ UNCHANGED <<cc_l1, cc_raised>>
        /\ UNCHANGED <<cc_clock, cc_ops, cc_gets>>
        /\ UNCHANGED ccFrame

NextCc ==
    \/ \E t \in Threads, key \in CcKeys : cc_put_call(t, key)
    \/ \E t \in Threads : cc_put_step(t)
    \/ \E t \in Threads, key \in CcKeys : cc_get_call(t, key)
    \/ \E t \in Threads : cc_get_step(t)

(***************************************************************************)
(*               ADBCollector._run_adb_commands_parallel                   *)
(***************************************************************************)
\* Bounds of the model: the configured timeout and retry count, and the
\* commands of one call.
MaxTimeout == 9
MaxRetries == 2
MaxParallel == 3

\* ADBCollector.__init__(timeout=5, retry_count=1)
DefaultTimeout == 5
DefaultRetryCount == 1

\* The commands get_installed_apps hands over.
InstalledAppsCommands == 2

\* timeout_per_thread = min(self.timeout + 2, 8)
JoinSlack == 2
JoinCap == 8
JoinTimeout(timeout) ==
    IF timeout + JoinSlack < JoinCap THEN timeout + JoinSlack ELSE JoinCap

\* The longest _run_adb_command can take: retry_count attempts of
\* subprocess.run(timeout=self.timeout) each (the 0.1 s sleeps between the
\* attempts left out).
LongestRun(timeout, retries) == retries * timeout

\* The time one subprocess.run that succeeds can take: at once, or just
\* within the timeout.
CommandTimes(timeout) == {1, timeout}

\* What one thread can do: k attempts that time out, then one that succeeds
\* (ok), or retry_count attempts that all time out.
ThreadRuns(timeout, retries) ==
    {[ends |-> k * timeout + s, ok |-> TRUE] :
        k \in 0..(retries - 1), s \in CommandTimes(timeout)}
    \cup {[ends |-> retries * timeout, ok |-> FALSE]}

\* The threads whose command is still running.
AliveThreads == {i \in 1..pr_n : pr_threads[i].ends > pr_now}

InitPr ==
    /\ pr_timeout \in 1..MaxTimeout
    /\ pr_retry_count \in 1..MaxRetries
    /\ pr_pc = "idle"
    /\ pr_n = 0
    /\ pr_threads = <<>>
    /\ pr_now = 0
    /\ pr_idx = 1
    /\ pr_alive = {}
    /\ pr_results = {}

\* The call up to the end of the start loop: one thread per command, all
\* started.
run_adb_commands_parallel(n, runs) ==
    /\ pr_pc = "idle"
    /\ pr_pc' = "join"
    /\ pr_n' = n
    /\ pr_threads' = runs
    /\ pr_now' = 0
    /\ pr_idx' = 1
    /\ pr_alive' = {}
    /\ pr_results' = {}
    /\ UNCHANGED <<pr_timeout, pr_retry_count>>
    /\ UNCHANGED prFrame

\* thread.join(timeout=timeout_per_thread) of the next thread.
parallel_join ==
    /\ pr_pc = "join"
    /\ LET ends == pr_threads[pr_idx].ends
           limit == pr_now + JoinTimeout(pr_timeout)
       IN  /\ pr_now' = IF ends <= pr_now THEN pr_now
                        ELSE IF ends <= limit THEN ends ELSE limit
           /\ pr_alive' = IF ends > limit THEN pr_alive \cup {pr_idx} ELSE pr_alive
    /\ pr_idx' = pr_idx + 1
    /\ pr_pc' = IF pr_idx = pr_n THEN "drain" ELSE "join"
    /\ UNCHANGED <<pr_timeout, pr_retry_count, pr_n, pr_threads, pr_results>>
    /\ UNCHANGED prFrame

\* The drain of result_queue: what the ended threads have put there.
parallel_drain ==
    /\ pr_pc = "drain"
    /\ pr_results' = (1..pr_n) \ AliveThreads
    /\ pr_pc' = "returned"
    /\ UNCHANGED <<pr_timeout, pr_retry_count, pr_n, pr_threads, pr_now, pr_idx, pr_alive>>
    /\ UNCHANGED prFrame

\* The caller takes the results; the threads left alive run on.
parallel_done ==
    /\ pr_pc = "returned"
    /\ pr_pc' = "idle"
    /\ UNCHANGED <<pr_timeout, pr_retry_count, pr_n, pr_threads, pr_now, pr_idx, pr_alive,
                   pr_results>>
    /\ UNCHANGED prFrame

NextPr ==
    \/ \E n \in 1..MaxParallel :
         \E runs \in [1..n -> ThreadRuns(pr_timeout, pr_retry_count)] :
            run_adb_commands_parallel(n, runs)
    \/ parallel_join
    \/ parallel_drain
    \/ parallel_done

\* The collector as the main window builds it, with both dispatch paths in
\* use: get_installed_apps on one thread, execute_batch on another.
NextPool ==
    \/ \E runs \in [1..InstalledAppsCommands ->
                       ThreadRuns(pr_timeout, pr_retry_count)] :
            run_adb_commands_parallel(InstalledAppsCommands, runs)
    \/ parallel_join
    \/ parallel_drain
    \/ parallel_done
    \/ \E n \in 1..MaxWaitBatch : execute_batch_submit(n)
    \/ worker_start
    \/ \E i \in 1..MaxWaitBatch, kind \in TaskKinds : worker_finish(i, kind)
    \/ execute_batch_collect
    \/ execute_batch_wait
    \/ execute_batch_wait_timeout
    \/ execute_batch_return

(***************************************************************************)
(*        Methods under self.lock: PerformanceMonitor, config manager      *)
(***************************************************************************)
\* Bound of the model: the calls made from outside.
MaxLockCalls == 3

MetricOrder == <<"adb_collection_time", "ui_update_time">>
ConfigOrder == <<"performance", "gui">>
ConfigNames == {ConfigOrder[i] : i \in 1..Len(ConfigOrder)}
NoArg == ""

MonitorOps == {"record_metric", "get_metric_summary", "get_all_metrics_summary",
               "get_recent_alerts", "get_performance_report", "export_metrics"}
ConfigOps == {"load_all_configs", "get_config", "set_config", "save_config",
              "save_all_configs", "reset_to_defaults"}

\* The statements of a method that matter here: entering and leaving
\* `with self.lock:`, a call of another method, a change of the state.
Acquire == [i |-> "acquire", op |-> NoArg, arg |-> NoArg, save |-> FALSE]
Release == [i |-> "release", op |-> NoArg, arg |-> NoArg, save |-> FALSE]
Call(op, arg, save) == [i |-> "call", op |-> op, arg |-> arg, save |-> save]
Effect(op, arg) == [i |-> "effect", op |-> op, arg |-> arg, save |-> FALSE]

\* PerformanceMonitor: the body of each public method.
MonitorProgram(op, arg) ==
    CASE op = "record_metric" ->
           <<Acquire, Effect("append", arg), Release>>
      [] op = "get_metric_summary" ->
           <<Acquire, Release>>
      [] op = "get_all_metrics_summary" ->
           <<Acquire>>
           \o [i \in 1..Len(SelectSeq(MetricOrder, LAMBDA m : m \in pm_metrics)) |->
                 Call("get_metric_summary",
                      SelectSeq(MetricOrder, LAMBDA m : m \in pm_metrics)[i], FALSE)]
           \o <<Release>>
      [] op = "get_recent_alerts" ->
           <<Acquire, Release>>
      [] op = "get_performance_report" ->
           <<Acquire, Call("get_all_metrics_summary", NoArg, FALSE),
             Call("get_recent_alerts", NoArg, FALSE), Release>>
      [] op = "export_metrics" ->
           <<Call("get_performance_report", NoArg, FALSE), Effect("dump", arg)>>

\* OptimizedConfigManager: the body of each method. reset_to_defaults with
\* NoArg is the call without a config name.
ConfigProgram(op, arg, save) ==
    CASE op = "load_all_configs" ->
           <<Acquire, Effect("load", NoArg), Release>>
           \o [i \in 1..Len(SelectSeq(ConfigOrder, LAMBDA n : n \notin cm_files)) |->
                 Call("save_config",
                      SelectSeq(ConfigOrder, LAMBDA n : n \notin cm_files)[i], FALSE)]
      [] op = "get_config" ->
           <<Acquire, Release>>
      [] op = "set_config" ->
           <<Acquire, Effect("set", arg)>>
           \o (IF save THEN <<Call("save_config", arg, FALSE)>> ELSE <<>>)
           \o <<Release>>
      [] op = "save_config" ->
           <<Acquire, Release, Effect("write", arg)>>
      [] op = "save_all_configs" ->
           [i \in 1..Len(ConfigOrder) |-> Call("save_config", ConfigOrder[i], FALSE)]
      [] op = "reset_to_defaults" ->
           IF arg = NoArg
           THEN <<Acquire, Effect("reset_all", NoArg),
                  Call("save_all_configs", NoArg, FALSE), Release>>
           ELSE IF arg \in ConfigNames
           THEN <<Acquire, Effect("set", arg), Call("save_config", arg, FALSE), Release>>
           ELSE <<Acquire, Release>>

ProgramOf(op, arg, save) ==
    IF op \in MonitorOps THEN MonitorProgram(op, arg) ELSE ConfigProgram(op, arg, save)

Frame(op, arg, save) == [op |-> op, arg |-> arg, rest |-> ProgramOf(op, arg, save)]

TopFrame == lk_stack[Len(lk_stack)]

\* The statement the thread is at holds instruction i.
AtInstr(i) ==
    /\ lk_stack # <<>>
    /\ TopFrame.rest # <<>>
    /\ Head(TopFrame.rest).i = i

\* The stack with the top frame past its current statement.
Advanced == [lk_stack EXCEPT ![Len(lk_stack)].rest = Tail(@)]

\* The thread waits in `with self.lock:` for the lock it holds itself.
Blocked == AtInstr("acquire") /\ lk_lock

\* A monitor that has recorded some metrics.
InitPm ==
    /\ lk_lock = FALSE
    /\ lk_stack = <<>>
    /\ lk_calls = 0
    /\ pm_metrics \in SUBSET {MetricOrder[i] : i \in 1..Len(MetricOrder)}
    /\ cm_files = ConfigNames
    /\ cm_modified = {}

\* A config manager some of whose files may be missing.
InitCm ==
    /\ lk_lock = FALSE
    /\ lk_stack = <<>>
    /\ lk_calls = 0
    /\ pm_metrics = {}
    /\ cm_files \in SUBSET ConfigNames
    /\ cm_modified = {}

\* A public method of the monitor is called from outside.
monitor_call(op, metric) ==
    /\ lk_stack = <<>>
    /\ lk_calls < MaxLockCalls
    /\ lk_calls' = lk_calls + 1
    /\ lk_stack' = <<Frame(op, metric, FALSE)>>
    /\ UNCHANGED <<lk_lock, pm_metrics, cm_files, cm_modified>>
    /\ UNCHANGED lkFrame

\* A method of the config manager is called from outside.
config_call(op, name, save) ==
    /\ lk_stack = <<>>
    /\ lk_calls < MaxLockCalls
    /\ lk_calls' = lk_calls + 1
    /\ lk_stack' = <<Frame(op, name, save)>>
    /\ UNCHANGED <<lk_lock, pm_metrics, cm_files, cm_modified>>
    /\ UNCHANGED lkFrame

\* `with self.lock:` is entered: threading.Lock is not reentrant, the thread
\* gets it only when nobody holds it.
lock_acquire ==
    /\ AtInstr("acquire")
    /\ ~lk_lock
    /\ lk_lock' = TRUE
    /\ lk_stack' = Advanced
    /\ UNCHANGED <<lk_calls, pm_metrics, cm_files, cm_modified>>
    /\ UNCHANGED lkFrame

\* The with block is left.
lock_release ==
    /\ AtInstr("release")
    /\ lk_lock' = FALSE
    /\ lk_stack' = Advanced
    /\ UNCHANGED <<lk_calls, pm_metrics, cm_files, cm_modified>>
    /\ UNCHANGED lkFrame

\* The method calls another method of the same object.
nested_call ==
    /\ AtInstr("call")
    /\ LET c == Head(TopFrame.rest)
       IN  lk_stack' = Append(Advanced, Frame(c.op, c.arg, c.save))
    /\ UNCHANGED <<lk_lock, lk_calls, pm_metrics, cm_files, cm_modified>>
    /\ UNCHANGED lkFrame

\* The method changes the object's state or writes a file.
method_effect ==
    /\ AtInstr("effect")
    /\ LET e == Head(TopFrame.rest)
       IN  /\ pm_metrics' = IF e.op = "append" THEN pm_metrics \cup {e.arg} ELSE pm_metrics
           /\ cm_files' = IF e.op = "write" THEN cm_files \cup {e.arg} ELSE cm_files
           /\ cm_modified' =
                 CASE e.op = "set" -> cm_modified \cup {e.arg}
                   [] e.op = "reset_all" -> ConfigNames
                   [] e.op = "load" -> ConfigNames \ cm_files
                   [] e.op = "write" -> cm_modified \ {e.arg}
                   [] OTHER -> cm_modified
    /\ lk_stack' = Advanced
    /\ UNCHANGED <<lk_lock, lk_calls>>
    /\ UNCHANGED lkFrame

\* The method returns to its caller.
method_return ==
    /\ lk_stack # <<>>
    /\ TopFrame.rest = <<>>
    /\ lk_stack' = SubSeq(lk_stack, 1, Len(lk_stack) - 1)
    /\ UNCHANGED <<lk_lock, lk_calls, pm_metrics, cm_files, cm_modified>>
    /\ UNCHANGED lkFrame

NextMonitor ==
    \/ \E op \in MonitorOps, metric \in {MetricOrder[i] : i \in 1..Len(MetricOrder)} :
          monitor_call(op, metric)
    \/ lock_acquire
    \/ lock_release
    \/ nested_call
    \/ method_effect
    \/ method_return

NextConfig ==
    \/ \E op \in ConfigOps, name \in ConfigNames \cup {NoArg, "unknown"},
          save \in BOOLEAN : config_call(op, name, save)
    \/ lock_acquire
    \/ lock_release
    \/ nested_call
    \/ method_effect
    \/ method_return

(***************************************************************************)
(*                          Specifications                                 *)
(***************************************************************************)
\* The state of a subsystem that takes no step in a specification.
IdleCache ==
    /\ now = 0
    /\ l1_cache = <<>>
    /\ l2_cache = <<>>
    /\ cache_stats = NoStats
    /\ lastGet = NoGet
    /\ prevGet = NoGet
    /\ putLog = EmptyLog
    /\ expiryRemovedBy = "none"

IdleInterval ==
    /\ adaptive_interval = base_interval
    /\ collection_times = <<>>
    /\ since_optimization = 0
    /\ error_count = 0
    /\ errors_total = 0
    /\ collection_intervals = BaseIntervals
    /\ load = 50
    /\ load_changes = 0
    /\ lastAdjust = NoAdjust

IdleWriter ==
    /\ batch_buffer = 0
    /\ since_flush = 0
    /\ batch_processing = TRUE
    /\ batch_queue = 0
    /\ bw_alive = TRUE
    /\ bw_batch_data = 0
    /\ bw_since_flush = 0
    /\ bulk_calls = <<>>
    /\ ds_clock = 0
    /\ ds_enqueued = 0
    /\ ds_flushes = <<>>
    /\ ds_dropped = 0
    /\ only_size_flushes = TRUE

IdleApp == InitApp

IdlePower ==
    /\ pw_pc = "ready"
    /\ cpu_usage = Absent
    /\ memory_info = Absent
    /\ foreground = "raises"
    /\ network_result = FALSE
    /\ pw_raises = FALSE
    /\ components_found = 0
    /\ pw_result = NoPower

IdleCancel == InitCancel

IdleDevice == InitDevice

IdleNet == InitNet

IdleFresh == InitFresh

IdleCc ==
    /\ cc_l1 = [k \in {1, 2} |-> k + 1]
    /\ cc_l2 = EmptyDict
    /\ cc_clock = 4
    /\ cc_th = [t \in Threads |-> ThreadIdle]
    /\ cc_raised = {}
    /\ cc_ops = 0
    /\ cc_gets = 0

IdlePr ==
    /\ pr_timeout = DefaultTimeout
    /\ pr_retry_count = DefaultRetryCount
    /\ pr_pc = "idle"
    /\ pr_n = 0
    /\ pr_threads = <<>>
    /\ pr_now = 0
    /\ pr_idx = 1
    /\ pr_alive = {}
    /\ pr_results = {}

IdleLk ==
    /\ lk_lock = FALSE
    /\ lk_stack = <<>>
    /\ lk_calls = 0
    /\ pm_metrics = {}
    /\ cm_files = ConfigNames
    /\ cm_modified = {}

IdleRun ==
    /\ retry_count = 1
    /\ cmd_cache = [c \in {} |-> None]
    /\ rc_now = 0
    /\ rc_pc = "idle"
    /\ rc_command = None
    /\ rc_use_cache = FALSE
    /\ rc_attempt = 0
    /\ rc_outcomes = <<>>
    /\ rc_result = None

InitCache == EnhancedCache_init /\ IdleRun /\ InitBatch /\ IdleInterval /\ IdleWriter /\ IdleApp
    /\ IdlePower
    /\ IdleCancel
    /\ IdleDevice
    /\ IdleNet
    /\ IdleFresh
    /\ IdleCc
    /\ IdlePr
    /\ IdleLk

NextCache ==
    \/ \E key \in CacheKeys, fetch \in {None, Fetched} : EnhancedCache_get(key, fetch)
    \/ \E key \in CacheKeys, data \in Data : EnhancedCache_put(key, data)
    \/ cleanup_expired_cache
    \/ Tick

SpecCache == InitCache /\ [][NextCache]_vars

\* Puts alone, from the empty cache, over the keys that fill both tiers.
NextEviction ==
    \/ \E key \in EvictionKeys, data \in Data : EnhancedCache_put(key, data)
    \/ Tick

SpecEviction == InitCache /\ [][NextEviction]_vars

InitRunner == InitRun /\ IdleCache /\ InitBatch /\ IdleInterval /\ IdleWriter /\ IdleApp
    /\ IdlePower
    /\ IdleCancel
    /\ IdleDevice
    /\ IdleNet
    /\ IdleFresh
    /\ IdleCc
    /\ IdlePr
    /\ IdleLk

SpecRun == InitRunner /\ [][NextRun]_vars

InitDispatcher == InitBatch /\ IdleCache /\ IdleRun /\ IdleInterval /\ IdleWriter /\ IdleApp
    /\ IdlePower
    /\ IdleCancel
    /\ IdleDevice
    /\ IdleNet
    /\ IdleFresh
    /\ IdleCc
    /\ IdlePr
    /\ IdleLk

SpecBatch == InitDispatcher /\ [][NextBatch]_vars

\* The calling thread runs on: its waits advance, end and the call returns.
\* The pool's tasks have no fairness: a command may never end.
FairSpecBatch ==
    /\ InitDispatcher
    /\ [][NextDispatch]_vars
    /\ WF_vars(execute_batch_collect)
    /\ WF_vars(execute_batch_wait)
    /\ WF_vars(execute_batch_wait_timeout)
    /\ WF_vars(execute_batch_return)

InitIntervals == IdleInterval /\ IdleCache /\ IdleRun /\ InitBatch /\ IdleWriter /\ IdleApp
    /\ IdlePower
    /\ IdleCancel
    /\ IdleDevice
    /\ IdleNet
    /\ IdleFresh
    /\ IdleCc
    /\ IdlePr
    /\ IdleLk

SpecInterval == InitIntervals /\ [][NextInterval]_vars

InitWorker == InitInterval /\ IdleCache /\ IdleRun /\ InitBatch /\ IdleWriter /\ IdleApp
    /\ IdlePower
    /\ IdleCancel
    /\ IdleDevice
    /\ IdleNet
    /\ IdleFresh
    /\ IdleCc
    /\ IdlePr
    /\ IdleLk

SpecWorker == InitWorker /\ [][NextWorker]_vars

InitWriters == InitWriter /\ IdleCache /\ IdleRun /\ InitBatch /\ IdleInterval /\ IdleApp
    /\ IdlePower
    /\ IdleCancel
    /\ IdleDevice
    /\ IdleNet
    /\ IdleFresh
    /\ IdleCc
    /\ IdlePr
    /\ IdleLk

SpecWriter == InitWriters /\ [][NextWriter]_vars

\* The writer with time passing and the batch worker thread running; the
\* calls of _add_to_batch come from the caller and may stop coming.
FairSpecWriter ==
    /\ InitWriters
    /\ [][NextWriter]_vars
    /\ WF_vars(WriterTick)
    /\ WF_vars(\E commit_ok \in BOOLEAN : batch_worker_get(commit_ok))
    /\ WF_vars(\E commit_ok \in BOOLEAN : batch_worker_idle_flush(commit_ok))
    /\ WF_vars(\E commit_ok \in BOOLEAN : batch_worker_exit(commit_ok))

InitApps == InitApp /\ IdleCache /\ IdleRun /\ InitBatch /\ IdleInterval /\ IdleWriter
    /\ IdlePower
    /\ IdleCancel
    /\ IdleDevice
    /\ IdleNet
    /\ IdleFresh
    /\ IdleCc
    /\ IdlePr
    /\ IdleLk

SpecApp == InitApps /\ [][NextApp]_vars

SpecPhases == InitApps /\ [][NextPhases]_vars

InitPowers == InitPower /\ IdleCache /\ IdleRun /\ InitBatch /\ IdleInterval /\ IdleWriter
    /\ IdleApp
    /\ IdleCancel
    /\ IdleDevice
    /\ IdleNet
    /\ IdleFresh
    /\ IdleCc
    /\ IdlePr
    /\ IdleLk

SpecPower == InitPowers /\ [][NextPower]_vars

InitCancels == InitCancel /\ InitInterval /\ IdleCache /\ IdleRun /\ InitBatch /\ IdleWriter
    /\ IdleApp /\ IdlePower
    /\ IdleDevice
    /\ IdleNet
    /\ IdleFresh
    /\ IdleCc
    /\ IdlePr
    /\ IdleLk

\* Both threads keep running; when stop is requested is up to the user.
FairSpecCancel ==
    /\ InitCancels
    /\ [][NextCancel]_vars
    /\ WF_vars(run_begin)
    /\ WF_vars(run_cycle)
    /\ WF_vars(run_exit)
    /\ WF_vars(stop_monitoring_return)

\* The same threads, with start_monitoring called again at any moment.
FairSpecRestart ==
    /\ InitCancels
    /\ [][NextRestart]_vars
    /\ WF_vars(run_begin)
    /\ WF_vars(run_cycle)
    /\ WF_vars(run_exit)
    /\ WF_vars(stop_monitoring_return)
    /\ WF_vars(restart_monitoring_return)

InitDevices == InitDevice /\ IdleCache /\ IdleRun /\ InitBatch /\ IdleInterval /\ IdleWriter
    /\ IdleApp /\ IdlePower /\ IdleCancel
    /\ IdleNet
    /\ IdleFresh
    /\ IdleCc
    /\ IdlePr
    /\ IdleLk

SpecDevice == InitDevices /\ [][NextDevice]_vars

InitNets == InitNet /\ IdleCache /\ IdleRun /\ InitBatch /\ IdleInterval /\ IdleWriter
    /\ IdleApp /\ IdlePower /\ IdleCancel /\ IdleDevice
    /\ IdleFresh
    /\ IdleCc
    /\ IdlePr
    /\ IdleLk

SpecNet == InitNets /\ [][NextNet]_vars

InitFreshs == InitFresh /\ IdleCache /\ IdleRun /\ InitBatch /\ IdleInterval /\ IdleWriter
    /\ IdleApp /\ IdlePower /\ IdleCancel /\ IdleDevice /\ IdleNet
    /\ IdleCc
    /\ IdlePr
    /\ IdleLk

SpecFresh == InitFreshs /\ [][NextFresh]_vars

InitCcs == InitCc /\ IdleCache /\ IdleRun /\ InitBatch /\ IdleInterval /\ IdleWriter
    /\ IdleApp /\ IdlePower /\ IdleCancel /\ IdleDevice /\ IdleNet /\ IdleFresh
    /\ IdlePr
    /\ IdleLk

SpecCc == InitCcs /\ [][NextCc]_vars

InitPrs == InitPr /\ IdleCache /\ IdleRun /\ InitBatch /\ IdleInterval /\ IdleWriter
    /\ IdleApp /\ IdlePower /\ IdleCancel /\ IdleDevice /\ IdleNet /\ IdleFresh /\ IdleCc
    /\ IdleLk

SpecPr == InitPrs /\ [][NextPr]_vars

InitPool == IdlePr /\ IdleCache /\ IdleRun /\ InitBatch /\ IdleInterval /\ IdleWriter
    /\ IdleApp /\ IdlePower /\ IdleCancel /\ IdleDevice /\ IdleNet /\ IdleFresh /\ IdleCc
    /\ IdleLk

SpecPool == InitPool /\ [][NextPool]_vars

InitMonitor == InitPm /\ IdleCache /\ IdleRun /\ InitBatch /\ IdleInterval /\ IdleWriter
    /\ IdleApp /\ IdlePower /\ IdleCancel /\ IdleDevice /\ IdleNet /\ IdleFresh /\ IdleCc
    /\ IdlePr

SpecMonitor == InitMonitor /\ [][NextMonitor]_vars

InitConfig == InitCm /\ IdleCache /\ IdleRun /\ InitBatch /\ IdleInterval /\ IdleWriter
    /\ IdleApp /\ IdlePower /\ IdleCancel /\ IdleDevice /\ IdleNet /\ IdleFresh /\ IdleCc
    /\ IdlePr

SpecConfig == InitConfig /\ [][NextConfig]_vars

(***************************************************************************)
(*                     Claims about the EnhancedCache                      *)
(***************************************************************************)

\* The get g found its key stored with an age past T1 but within T2 = 2*T1.
Aged(g) ==
    /\ g.op = "get"
    /\ g.present
    /\ ttl <= g.storedAge
    /\ g.storedAge < 2 * ttl

\* C1 (cache promotion): a get of a key that was put and has aged past T1 but
\* is still within T2 returns the stored value and leaves the key in tier-1,
\* and a second get issued immediately afterwards is a tier-1 hit.
C1_CachePromotion ==
    /\ Aged(lastGet) =>
          /\ lastGet.result = lastGet.storedData
          /\ lastGet.key \in Keys(l1_cache)
    /\ (Aged(prevGet) /\ lastGet.op = "get" /\ lastGet.key = prevGet.key) =>
          lastGet.kind = "l1_hit"

\* C2 (cache eviction): from the empty cache, N1+1 puts of distinct keys cause
\* exactly one demotion and no deletion; an entry is dropped from tier-2 only
\* once more than N1+N2 distinct keys were put; what is demoted or dropped is
\* the oldest entry of its tier.
C2_CacheEviction ==
    putLog.pure =>
        /\ Cardinality(putLog.keys) = max_l1_size + 1 =>
              (putLog.demoted = 1 /\ putLog.dropped = {})
        /\ putLog.dropped # {} =>
              Cardinality(putLog.keys) > max_l1_size + max_l2_size
        /\ putLog.oldest

\* C9 (cache capacity): tier-1 never holds more than N1 entries and tier-2
\* never more than N2.
C9_CacheCapacity ==
    /\ Len(l1_cache) <= max_l1_size
    /\ Len(l2_cache) <= max_l2_size

\* C10 (cache expiration): a get never serves a value of age >= T1 from tier-1
\* nor of age >= 2*T1 from tier-2; a get that finds an expired entry reports a
\* miss; and only a get removes entries for expiry.
C10_CacheExpiration ==
    /\ (lastGet.op = "get" /\ lastGet.kind = "l1_hit") => lastGet.age < ttl
    /\ (lastGet.op = "get" /\ lastGet.kind = "l2_hit") => lastGet.age < 2 * ttl
    /\ (lastGet.op = "get" /\ lastGet.foundExpired) => lastGet.kind = "miss"
    /\ expiryRemovedBy \in {"none", "get"}

\* C27 (tier disjointness): after any sequence of gets and puts no key is in
\* tier-1 and in tier-2 at the same time, also after a put of a key that was
\* demoted to tier-2 earlier.
C27_TierDisjoint == Keys(l1_cache) \cap Keys(l2_cache) = {}

(***************************************************************************)
(*                  Claims about the command runner                        *)
(***************************************************************************)

\* C8 (retry contract): a call makes at most retry_count attempts, stops at
\* the first attempt that succeeds and returns its output, returns None after
\* the last attempt has failed, and never raises for a timeout or a non-zero
\* exit.
C8_RetryContract ==
    /\ Len(rc_outcomes) <= retry_count
    /\ \A i \in 1..(Len(rc_outcomes) - 1) : ~Succeeded(rc_outcomes[i])
    /\ rc_pc # "raised"
    /\ (rc_pc = "attempt" /\ rc_outcomes # <<>>) =>
          ~Succeeded(rc_outcomes[Len(rc_outcomes)])
    /\ (rc_pc = "returned" /\ rc_outcomes # <<>>) =>
          IF Succeeded(rc_outcomes[Len(rc_outcomes)])
          THEN rc_result = Output(rc_command, rc_outcomes[Len(rc_outcomes)])
          ELSE rc_result = None /\ Len(rc_outcomes) = retry_count

\* Two failed attempts (a timeout, a non-zero exit), then a success.
C8_Witness ==
    /\ rc_pc = "returned"
    /\ retry_count = 3
    /\ rc_outcomes = <<"timeout", "nonzero", "ok">>
    /\ rc_result = Stdout[rc_command]

(***************************************************************************)
(*                    Claims about the dispatcher                          *)
(***************************************************************************)

\* The task of key i succeeded and its result was collected in time.
Delivered(i) == i \notin eb_timedout /\ task_kind[i] = "ok"

\* C3 (partial-failure tolerance): execute_batch never raises and returns a
\* map whose keys are exactly the submitted keys, holding the command's output
\* for a task that succeeded and None for a task that failed, timed out or
\* threw.
C3_PartialFailure ==
    /\ eb_pc # "raised"
    /\ eb_pc = "collect" => DOMAIN eb_results = 1..(eb_idx - 1)
    /\ eb_pc = "returned" =>
          /\ DOMAIN eb_results = 1..eb_n
          /\ \A i \in 1..eb_n :
                eb_results[i] = IF Delivered(i) THEN BatchStdout(i) ELSE None

\* A batch of 5 commands of which 2 failed (one timed out, one threw): 3
\* results are present and 2 are None.
C3_Witness ==
    /\ eb_pc = "returned"
    /\ eb_n = 5
    /\ eb_timedout = {}
    /\ task_kind = <<"ok", "timeout", "ok", "badcmd", "ok">>
    /\ Cardinality({i \in 1..eb_n : eb_results[i] # None}) = 3
    /\ Cardinality({i \in 1..eb_n : eb_results[i] = None}) = 2

\* C17 (dispatcher termination): execute_batch always returns, whatever the
\* batch size and also when tasks never end: no wait for a task lasts longer
\* than the per-task bound, and a call that is collecting returns.
C17_DispatcherTermination ==
    /\ [](eb_waited <= WaitBound)
    /\ (eb_pc = "collect") ~> (eb_pc = "returned")

\* A batch of 3 commands none of which ever ran to its end: every wait timed
\* out and the call returned.
C17_Witness ==
    /\ eb_pc = "returned"
    /\ eb_n = 3
    /\ eb_timedout = {1, 2, 3}
    /\ \A i \in 1..eb_n : task_state[i] # "done"

(***************************************************************************)
(*                 Claims about the sampling intervals                     *)
(***************************************************************************)

\* C4 (adaptive interval bounds): the worker's interval and every interval of
\* the collector's table stay within [0.5 * base, 2 * base] of their base;
\* with durations held at 90 % of the interval an adjustment does not shorten
\* the interval, with durations held at 20 % it does not lengthen it.
C4_IntervalBounds ==
    /\ 2 * adaptive_interval >= base_interval
    /\ adaptive_interval <= 2 * base_interval
    /\ \A k \in Domains :
          /\ 2 * collection_intervals[k] >= BaseIntervals[k]
          /\ collection_intervals[k] <= 2 * BaseIntervals[k]
    /\ (lastAdjust.ran /\ lastAdjust.held = 90) => lastAdjust.after >= lastAdjust.before
    /\ (lastAdjust.ran /\ lastAdjust.held = 20) => lastAdjust.after <= lastAdjust.before

\* The rule with the thresholds taken from the interval as it is when the
\* controller runs: the interval after a re-evaluation that found the
\* durations total over samples cycles.
RuleOfCurrentInterval(interval, total, samples) ==
    IF 10 * total > 8 * interval * samples
    THEN Min((interval * 12) \div 10, base_interval * 2)
    ELSE IF 10 * total < 3 * interval * samples
    THEN Max((interval * 9) \div 10, base_interval \div 2)
    ELSE interval

\* C18 (adaptive controller rule): the controller re-evaluates at most once
\* per 30-second window and only with at least 5 recorded durations; a
\* re-evaluation lengthens the interval (x 1.2, within the bounds) exactly
\* when the average duration exceeds 80 % of the current interval, shortens
\* it (x 0.9, within the bounds) exactly when the average is under 30 % of
\* the current interval, and leaves it unchanged otherwise.
C18_ControllerRule ==
    lastAdjust.called =>
        /\ lastAdjust.ran =>
              /\ lastAdjust.elapsed >= OptimizationWindow
              /\ lastAdjust.samples >= MinSamples
              /\ lastAdjust.after =
                    RuleOfCurrentInterval(lastAdjust.before, lastAdjust.total,
                                          lastAdjust.samples)
        /\ ~lastAdjust.ran => lastAdjust.after = lastAdjust.before

\* A step that changes a sampling interval is a re-evaluation over the
\* recorded collection durations; a cycle that raised changes none.
C23_Step ==
    /\ (adaptive_interval' # adaptive_interval
           \/ collection_intervals' # collection_intervals) =>
          (lastAdjust' # lastAdjust /\ lastAdjust'.ran)
    /\ errors_total' # errors_total =>
          (adaptive_interval' = adaptive_interval
             /\ collection_intervals' = collection_intervals)

\* C23 (errors do not move the interval): a collection cycle that fails
\* leaves every sampling interval unchanged, and the intervals (the worker's
\* and the collector's table) change only in response to the observed
\* collection latency.
C23_ErrorsKeepInterval == [][C23_Step]_vars

(***************************************************************************)
(*                  Claims about the buffered writer                       *)
(***************************************************************************)

\* C5 (size trigger): with the size threshold 50 (and no other trigger),
\* enqueueing 49 records causes no flush and the 50th causes exactly one flush,
\* which delivers all 50 records to storage as a single bulk call.
C5_SizeTrigger ==
    only_size_flushes =>
        /\ ds_enqueued < batch_size_limit => ds_flushes = <<>>
        /\ ds_enqueued = batch_size_limit => ds_flushes = <<batch_size_limit>>
        /\ \A i \in DOMAIN bulk_calls : bulk_calls[i].size = batch_size_limit
        /\ (ds_flushes # <<>> /\ batch_queue = 0 /\ bw_batch_data = 0) =>
              Len(bulk_calls) = Len(ds_flushes)

\* The records handed to storage by the bulk inserts so far, and the records
\* taken out of the buffer by the flushes so far.
RECURSIVE HandedOver(_)
HandedOver(calls) ==
    IF calls = <<>> THEN 0 ELSE calls[1].size + HandedOver(Tail(calls))

RECURSIVE Flushed(_)
Flushed(flushes) ==
    IF flushes = <<>> THEN 0 ELSE flushes[1] + Flushed(Tail(flushes))

\* Every record accepted by the writer is in exactly one place: in the
\* buffer, on the way to storage, refused by the database manager, or in one
\* bulk insert (failed or not).
C11_Accounted ==
    /\ HandedOver(bulk_calls) + bw_batch_data + batch_queue + ds_dropped
          = Flushed(ds_flushes)
    /\ Flushed(ds_flushes) + batch_buffer = ds_enqueued
    /\ HandedOver(bulk_calls) <= ds_enqueued

\* A flush takes the whole buffer and resets its timer; a bulk insert takes
\* all the worker holds, whether it commits or fails, and puts nothing back.
C11_FlushStep ==
    /\ ds_flushes' # ds_flushes => (batch_buffer' = 0 /\ since_flush' = 0)
    /\ bulk_calls' # bulk_calls =>
          /\ bw_batch_data' = 0
          /\ batch_queue' <= batch_queue
          /\ batch_buffer' = batch_buffer

\* C11 (at-most-once delivery): every record accepted by the writer is handed
\* to storage at most once; a flush empties the buffer of its record type and
\* resets its timer; the records of a failed hand-over are dropped and never
\* queued again.
C11_AtMostOnce == [](C11_Accounted) /\ [][C11_FlushStep]_vars

\* A bulk insert has failed, a later one was made, and nothing is on the way.
C11_Witness ==
    /\ Len(bulk_calls) >= 2
    /\ ~bulk_calls[1].ok
    /\ batch_queue = 0
    /\ bw_batch_data = 0
    /\ HandedOver(bulk_calls) = ds_enqueued

\* C12 (time trigger): once the time threshold of the record type has passed
\* since its last flush, the buffer is flushed even when no further record is
\* enqueued, so that no record stays in the buffer for ever.
C12_TimeTrigger ==
    (batch_buffer > 0 /\ since_flush >= flush_interval) ~> (batch_buffer = 0)

(***************************************************************************)
(*               Claims about the two-phase app collection                 *)
(***************************************************************************)

\* C6 (two-phase app collection): when the top snapshot of phase 1 shows that
\* package p runs under process name q, every phase-2 command issued for p
\* targets q and not p.
C6_PhaseTwoTargets ==
    ap_pc \in {"phase2", "returned"} =>
        \A i \in DOMAIN batch_commands_phase2 :
            LET cmd == batch_commands_phase2[i]
                p == cmd.id[2]
                q == get_actual_process_name_from_top(all_top_info, p)
            IN  (q # NoName /\ q # p) => cmd.target = q

\* C19 (phase ordering): within one collection cycle, when the first
\* phase-2 command is handed over every phase-1 command has completed or
\* the wait for it has timed out.
C19_PhaseOrdering ==
    (\E k \in DOMAIN ap_issued : ap_issued[k] = "phase2") =>
        /\ eb_n = PhaseOneBatch
        /\ \A i \in 1..PhaseOneBatch : task_state[i] = "done" \/ i \in eb_timedout

\* Phase 2 was handed over after top_all completed and the wait for
\* cpuinfo_all timed out; cpuinfo_all is still running.
C19_Witness ==
    /\ ap_pc = "phase2"
    /\ eb_timedout = {1}
    /\ task_state = <<"running", "done">>
    /\ all_top_info # NoTop
    /\ Len(batch_commands_phase2) = 6

(***************************************************************************)
(*                  Claims about the power estimation                      *)
(***************************************************************************)

\* C7 (power estimation clamping): whenever the estimator returns a value it
\* lies in [0.1, 150] mAh, whatever the CPU, memory, foreground state and
\* network activity; and it returns no value when fewer than two components
\* contributed.
C7_PowerClamping ==
    pw_pc = "done" =>
        /\ pw_result.returned =>
              (LowerBound <= pw_result.value /\ pw_result.value <= UpperBound)
        /\ components_found < 2 => ~pw_result.returned

\* The estimator has returned a value for 100 % CPU, a very large memory, a
\* foreground app and network activity.
C7_Witness ==
    /\ pw_pc = "done"
    /\ cpu_usage.present /\ cpu_usage.value >= 1000
    /\ memory_info.present /\ memory_info.value > 1000
    /\ foreground = "yes"
    /\ network_result
    /\ pw_result.returned

(***************************************************************************)
(*                     Claims about cancellation                           *)
(***************************************************************************)

\* C13 (cancellation): under every interleaving of the GUI thread and the
\* polling thread, once stop_monitoring has cleared the running flag the
\* polling thread finishes and stop_monitoring returns, also when stop is
\* requested before run has begun.
C13_Cancellation ==
    (gui_pc = "waiting") ~> (wk_pc = "finished" /\ gui_pc = "stopped")

\* C30 (restart safety): a start_monitoring called while a worker exists
\* returns with the new worker started, also when the worker of the earlier
\* start_monitoring is still inside its collection loop.
C30_RestartSafety ==
    (gui_pc = "restarting") ~> (gui_pc = "monitoring")

(***************************************************************************)
(*                     Claims about device scoping                         *)
(***************************************************************************)

\* C14 (device scoping): once the connection check has set the collector's
\* device identifier, every command issued afterwards, through
\* _run_adb_command or through the dispatcher, is prefixed with it.
C14_DeviceScoping ==
    \A i \in DOMAIN issued :
        issued[i].device_id # None =>
            /\ Len(issued[i].argv) = 4
            /\ SubSeq(issued[i].argv, 1, 3) = <<"adb", "-s", issued[i].device_id>>

(***************************************************************************)
(*                        Claims about parsing                             *)
(***************************************************************************)

\* C15 (idempotence of parsing): parsing the same text twice in succession on
\* the same collector gives identical records.
C15_ParseIdempotent ==
    (nt_parses >= 2 /\ nt_prev_text = nt_text) => nt_prev_result = nt_result

\* The text holds no reading of the network counters: it is empty or none of
\* its lines is counted.
Unread(text) == text.empty \/ \A i \in DOMAIN text.data : ~Counted(text.data[i])

\* The keys of a record the parser returns: the totals always, the speeds
\* when has_speed.
RecordKeys(record) ==
    {"network_rx_total", "network_tx_total"}
        \cup (IF record.has_speed THEN {"network", "network_rx", "network_tx"} ELSE {})

\* The keys that hold the value 0.
ZeroKeys(record) ==
    {k \in RecordKeys(record) :
        CASE k = "network_rx_total" -> record.network_rx_total = 0
          [] k = "network_tx_total" -> record.network_tx_total = 0
          [] k = "network" -> record.network = 0
          [] k = "network_rx" -> record.network_rx = 0
          [] k = "network_tx" -> record.network_tx = 0}

\* C22 (no fabricated zero): when the network counters could not be read,
\* their keys are absent from the returned record; the collector inserts no
\* zero for a metric it could not read.
C22_NoFabricatedZero ==
    (nt_parses >= 1 /\ Unread(nt_text)) => ZeroKeys(nt_result) = {}

(***************************************************************************)
(*                     Claims about the Fresh state                        *)
(***************************************************************************)

C20_OnlySuccessStamps ==
    fr_last.all_absent => ~fr_last.stamped

\* C21 (Degraded state): for every domain, when the primary batch of a
\* collection yields no usable data, the collector runs the serial
\* single-command fallback before it returns the record.
C21_DegradedFallsBack ==
    fr_last.primary_empty => fr_last.fallback

(***************************************************************************)
(*               Claims about the cache under two threads                  *)
(***************************************************************************)

\* C24 (cache access is serialized): when two threads run get and put on the
\* same cache, no interleaving makes an operation raise, and none leaves
\* tier-1 above max_l1_size entries once puts alone have run.
C24_Serialized ==
    /\ cc_raised = {}
    /\ (cc_gets = 0 /\ \A t \in Threads : cc_th[t].pc = "idle") =>
          Cardinality(DOMAIN cc_l1) <= max_l1_size

\* Two puts, each run to its end without raising, left three entries in a
\* tier-1 of two.
C24_OverfullAfterPuts ==
    /\ cc_raised = {}
    /\ cc_gets = 0
    /\ \A t \in Threads : cc_th[t].pc = "idle"
    /\ Cardinality(DOMAIN cc_l1) > max_l1_size

(***************************************************************************)
(*                  Claims about the dispatch paths                        *)
(***************************************************************************)

\* The device commands in flight: the tasks the pool is running and the
\* threads of _run_adb_commands_parallel whose command has not ended.
InFlight == Cardinality(Running) + Cardinality(AliveThreads)

\* C25 (bounded worker pool): at no time are more device commands in flight
\* than the pool's width, whichever dispatch path started them.
C25_BoundedPool == InFlight <= max_workers

\* C26 (timeout ordering): the wait bound of the dispatcher is strictly larger
\* than the longest time one task's command can take, and a command whose
\* last attempt ended within its own timeout is in the result map.
C26_TimeoutOrdering ==
    pr_pc = "returned" =>
        /\ JoinTimeout(pr_timeout) > LongestRun(pr_timeout, pr_retry_count)
        /\ \A i \in 1..pr_n : pr_threads[i].ok => i \in pr_results

(***************************************************************************)
(*                 Claims about the methods under self.lock                *)
(***************************************************************************)

\* With one thread, every statement but the entry of `with self.lock:` can
\* always be taken and every method body is finite: a call returns exactly
\* when the thread never waits for a lock that is held.

\* C28 (PerformanceMonitor is deadlock-free): no public method of the
\* monitor, called from a single thread, comes to wait for self.lock while the
\* lock is held.
C28_MonitorDeadlockFree == ~(Blocked /\ lk_stack[1].op \in MonitorOps)

\* C29 (OptimizedConfigManager is deadlock-free): set_config with save=True
\* and reset_to_defaults never come to wait for the manager's lock while it is
\* held.
C29_ConfigDeadlockFree ==
    ~(/\ Blocked
      /\ lk_stack[1].op \in {"set_config", "reset_to_defaults"}
      /\ TopFrame.op = "save_config")

====
